---- MODULE Spec2Model ----
(***************************************************************************)
(* Model of the routing-rule evaluation exposed by euclid_wasm:            *)
(* seed_knowledge_graph and get_valid_connectors_for_rule                  *)
(* (crates/euclid_wasm/src/lib.rs).  The evaluator is translated statement *)
(* by statement; the euclid and hyperswitch_constraint_graph crates it     *)
(* calls (lower_rule, RuleContextManager, perform_context_analysis,        *)
(* make_mca_graph) are modelled from their documented contracts.           *)
(***************************************************************************)
EXTENDS Integers, Naturals, Sequences, FiniteSets, TLC

(* ------------------------------ bounds -------------------------------- *)

\* Largest number of conjunctive clauses a submitted rule holds in total.
MaxTotalClauses == 2
\* Largest number of comparisons in one conjunctive clause.
MaxClauseLen == 2
\* Largest number of merchant connector accounts in a seed payload.
MaxConnectors == 3

(* --------------------------- value domains ---------------------------- *)

Range(f) == {f[k] : k \in DOMAIN f}

\* RoutableConnectors variants the merchant configures.
RoutableConnectors == {"stripe", "adyen"}

\* The enumerated variants of the card_network key.
CardNetworks == {"Visa", "Mastercard"}

\* A directive value: one variant of one key.
DirValue(k, v) == [key |-> k, value |-> v]

\* dir::DirValue::Connector(Box::new(choice))
ConnectorValue(choice) == DirValue("Connector", choice)

\* Surface comparisons a rule document may hold; "Unobtainium" is no variant.
AstComparisons ==
    {[lhs |-> "card_network", value |-> v] : v \in CardNetworks \cup {"Unobtainium"}}

\* A conjunctive clause: an unordered set of comparisons.
AstClauses == {c \in SUBSET AstComparisons : Cardinality(c) <= MaxClauseLen}

RECURSIVE RulesUpTo(_)
\* Every statement sequence holding at most n clauses in total; a statement's
\* condition is a non-empty ordered sequence of clauses.
RulesUpTo(n) ==
    {<<>>} \cup
    UNION {{<<s>> \o r : s \in [1..k -> AstClauses], r \in RulesUpTo(n - k)} : k \in 1..n}

\* The JsValue handed to get_valid_connectors_for_rule: a rule document, or
\* a value serde cannot read as ast::Rule<ConnectorSelection>.
RuleInputs ==
    {[valid |-> TRUE, statements |-> r] : r \in RulesUpTo(MaxTotalClauses)}
    \cup {[valid |-> FALSE, statements |-> <<>>]}

\* Ordered connector-account lists of a seed payload (repeats allowed).
ConnectorLists == UNION {[1..n -> RoutableConnectors] : n \in 0..MaxConnectors}

\* Connector names a seed payload may carry; the last is no RoutableConnectors
\* variant.
ConnectorNames == RoutableConnectors \cup {"not_a_connector"}

\* Ordered lists of connector names of a seed payload (repeats allowed).
McaNameLists == UNION {[1..n -> ConnectorNames] : n \in 0..MaxConnectors}

\* The domain description a merchant graph gives of the card networks: the
\* global one, or one that leaves a network out.
McaDomainTables ==
    { {<<"CardNetwork", CardNetworks>>}, {<<"CardNetwork", {"Visa"}>>} }

\* Merchant graphs: the (connector, value) pairs a connector account rules out.
McaGraphs ==
    { {},
      {<<ConnectorValue("stripe"), DirValue("CardNetwork", "Visa")>>},
      {<<ConnectorValue("stripe"), DirValue("CardNetwork", "Visa")>>,
       <<ConnectorValue("adyen"), DirValue("CardNetwork", "Mastercard")>>} }

(* ------------------- euclid::frontend::ast::lowering ------------------ *)

\* Whether a surface comparison names a variant of its key's domain.
Recognized(cmp) == cmp.lhs = "card_network" /\ cmp.value \in CardNetworks

\* One comparison in directive-value form.
lower_comparison(cmp) == DirValue("CardNetwork", cmp.value)

\* lower_rule: every comparison of every clause of every statement is
\* translated, statement and clause order kept; an unrecognized key/value
\* pair fails the whole lowering.
lower_rule(statements) ==
    IF \A i \in 1..Len(statements) : \A j \in 1..Len(statements[i]) :
          \A cmp \in statements[i][j] : Recognized(cmp)
    THEN [ok |-> TRUE,
          rule |-> [i \in 1..Len(statements) |->
                      [j \in 1..Len(statements[i]) |->
                          {lower_comparison(cmp) : cmp \in statements[i][j]}]]]
    ELSE [ok |-> FALSE, rule |-> <<>>]

(* ------------------ euclid::dssa::state_machine ----------------------- *)

RECURSIVE SetToSeq(_)
\* The assertions of a clause pushed one by one, in a fixed order.
SetToSeq(S) ==
    IF S = {} THEN <<>>
    ELSE LET x == CHOOSE y \in S : TRUE IN <<x>> \o SetToSeq(S \ {x})

\* RuleContextManager::new(&dir_rule, &[]): no context produced yet, the
\* cursor on the first clause of the first statement.
RuleContextManager_new(dir_rule) == [state |-> "Start", i |-> 1, j |-> 1]

\* The manager before it is constructed.
NoManager == [state |-> "None", i |-> 0, j |-> 0]

\* A cursor that never leaves the first statement it is given.
NextCursor_one_statement(dir_rule, i, j) ==
    IF j < Len(dir_rule[i]) THEN [state |-> "Positioned", i |-> i, j |-> j + 1]
    ELSE [state |-> "Exhausted", i |-> i, j |-> j]

\* The cursor after the pair (i, j) has been yielded.
NextCursor(dir_rule, i, j) ==
    IF j < Len(dir_rule[i]) THEN [state |-> "Positioned", i |-> i, j |-> j + 1]
    ELSE IF i < Len(dir_rule) THEN [state |-> "Positioned", i |-> i + 1, j |-> 1]
    ELSE [state |-> "Exhausted", i |-> i, j |-> j]

\* advance_mut: from Start or Positioned, the context of the current pair
\* (a fresh sequence over the empty base layer) and the cursor moved on;
\* from Exhausted, or with nothing to point at, the no-more-contexts signal.
advance_mut(dir_rule, m) ==
    IF m.state = "Exhausted" \/ m.i > Len(dir_rule)
    THEN [some |-> FALSE, ctx |-> <<>>, pair |-> <<0, 0>>,
          manager |-> [state |-> "Exhausted", i |-> m.i, j |-> m.j]]
    ELSE [some |-> TRUE, ctx |-> SetToSeq(dir_rule[m.i][m.j]), pair |-> <<m.i, m.j>>,
          manager |-> NextCursor(dir_rule, m.i, m.j)]

(* ------------------- hyperswitch_constraint_graph --------------------- *)

\* An aggregator node over the values of one key; an edge from it to a value
\* puts the value in the aggregator.
AggregatorNode(k) == DirValue("Aggregator", k)

\* Two values stand under one aggregator.
InAggregator(cgraph, a, b) ==
    \E e1 \in cgraph, e2 \in cgraph :
        /\ e1[1].key = "Aggregator"
        /\ e1[1] = e2[1]
        /\ e1[2] = a
        /\ e2[2] = b

\* Two assertions that cannot hold together: two values of one
\* single-valued key that no aggregator joins, or a pair the graph's edges
\* rule out.
Conflicts(cgraph, a, b) ==
    \/ a.key = b.key /\ a.value # b.value /\ ~InAggregator(cgraph, a, b)
    \/ <<a, b>> \in cgraph
    \/ <<b, a>> \in cgraph

\* Memoization::new(): a table with no entry.
Memoization_new == {}

\* The canonical key of the sub-context made of the first k assertions: the
\* set of them, so that equal sets of assertions share one entry.
MemoKey(ctx, k) == {ctx[m] : m \in 1..k}

\* Each assertion compared with the one pushed just before it only.
PrefixSatisfiable_adjacent(cgraph, ctx, k) ==
    \A m \in 1..k : \A n \in 1..k : (n = m + 1) => ~Conflicts(cgraph, ctx[m], ctx[n])

\* Whether the first k assertions hold together.
PrefixSatisfiable(cgraph, ctx, k) ==
    \A m \in 1..k : \A n \in 1..k : ~Conflicts(cgraph, ctx[m], ctx[n])

RECURSIVE AnalysisFrom(_, _, _, _, _)
\* The walk over the assertions from position k on: the verdict on each
\* sub-context is read from the table when the table holds it and is
\* computed and stored otherwise; the walk stops at the first failure.
AnalysisFrom(cgraph, ctx, k, memo, reads) ==
    IF k > Len(ctx)
    THEN [result |-> [is_err |-> FALSE, node |-> 0], memo |-> memo, reads |-> reads]
    ELSE LET key == MemoKey(ctx, k)
             hit == {e \in memo : e.key = key}
             sat == IF hit # {} THEN (CHOOSE e \in hit : TRUE).sat
                    ELSE PrefixSatisfiable(cgraph, ctx, k)
             memo2 == IF hit # {} THEN memo ELSE memo \cup {[key |-> key, sat |-> sat]}
             reads2 == IF hit # {} THEN reads \cup {key} ELSE reads
         IN IF sat THEN AnalysisFrom(cgraph, ctx, k + 1, memo2, reads2)
            ELSE [result |-> [is_err |-> TRUE, node |-> k], memo |-> memo2, reads |-> reads2]

\* perform_context_analysis(ctx, memo, None): the verdict, the table as the
\* call leaves it, and the keys the call read from the table it was given.
analysis_with_memo(cgraph, ctx, memo) == AnalysisFrom(cgraph, ctx, 1, memo, {})

\* perform_context_analysis(ctx, &mut Memoization::new(), None): walks the
\* assertions in order and fails on the first one that conflicts with an
\* assertion before it.
perform_context_analysis(cgraph, ctx) ==
    analysis_with_memo(cgraph, ctx, Memoization_new).result

\* kgraph_utils::mca::make_mca_graph and ConstraintGraph::combine with the
\* static ANALYSIS_GRAPH: the merchant's edges joined with the global ones
\* (the global graph holds no edge over the modelled values).
ANALYSIS_GRAPH == {}
combine(graph_a, graph_b) == graph_a \cup graph_b

\* The domain descriptions of the static ANALYSIS_GRAPH.
ANALYSIS_DOMAINS == {<<"CardNetwork", CardNetworks>>}

\* combine fails when the two graphs describe one key's domain differently.
DomainIdCollision(domains_a, domains_b) ==
    \E a \in domains_a, b \in domains_b : a[1] = b[1] /\ a[2] # b[2]

\* make_mca_graph: the merchant's edges and domain descriptions, or an error
\* for accounts no graph can be built from.
make_mca_graph(mcas) ==
    [ok |-> mcas.shape # "unbuildable", edges |-> mcas.edges, domains |-> mcas.domains]

\* RoutableConnectors::from_str: only the enum's variants parse.
from_str(name) == [ok |-> name \in RoutableConnectors, connector |-> name]

(* ------------------------------- state -------------------------------- *)

VARIABLES
    SEED_DATA,           \* the OnceLock<SeedData>: unset, or cgraph and connectors
    pc,                  \* position inside get_valid_connectors_for_rule
    rule,                \* the JsValue argument of the call in progress
    dir_rule,            \* the lowered rule of the call in progress
    valid_connectors,    \* the candidates, in seeded order
    invalid_connectors,  \* the HashSet of connectors ruled out in this call
    ctx_manager,         \* the RuleContextManager's cursor
    ctx,                 \* the context the manager yielded last
    idx,                 \* position of the for loop in valid_connectors
    ret,                 \* the JsResult of the call that has just returned
    memo,                \* history: the table the last analysis call left
    memo_reads,          \* history: the keys the last analysis call read
    yielded,             \* history: the (statement, clause) pairs yielded
    advance_calls,       \* history: advance_mut calls of this call
    analysis_calls       \* history: perform_context_analysis calls of this call

\* History: what the caller holds of the evaluation it is now repeating, and
\* the argument of the seed call that has just returned.
VARIABLES
    earlier,             \* the rule and the list of the first of two identical calls
    mcas                 \* the JsValue argument of seed_knowledge_graph

\* One perform_context_analysis call on its own.
VARIABLES
    an_graph,            \* the graph the analysis runs against
    an_ctx,              \* the context handed to it
    an_result            \* its verdict, once it has run

anVars == <<an_graph, an_ctx, an_result>>

\* One get_all_keys call.
VARIABLES
    VARIANTS,            \* dir::DirKeyKind::VARIANTS, the names in declaration order
    keys                 \* the JsResult of get_all_keys

keyVars == <<VARIANTS, keys>>

\* One serde_json::from_str::<Refund> call.
VARIABLES
    serialized_refund,   \* the JSON text, as its members in order
    deserialized         \* the Result of the call

\* One RefundUpdate::apply_changeset call.
VARIABLES
    cs_pc,               \* whether the call has been made and has returned
    cs_source,           \* the refund the update is applied to
    cs_update,           \* the update
    cs_clock,            \* the time of the call
    cs_refund            \* the refund the call returns

changesetVars == <<cs_pc, cs_source, cs_update, cs_clock, cs_refund>>

refundVars == <<serialized_refund, deserialized, changesetVars>>

\* revoke_mandate: the mandate store and the requests in progress.
VARIABLES
    db,                  \* the store: the status of each stored mandate
    call_pc,             \* where each request stands in revoke_mandate
    req,                 \* the mandate id each request names
    mandate,             \* the mandate record each request has read
    response,            \* what the connector's revoke step returned to each request
    wrote,               \* history: the request's update reached the store
    revoke_ret           \* the RouterResponse of each request

\* mandate_procedure and update_connector_mandate_id: the other columns of the
\* stored mandates and the locals of the calls in progress.
VARIABLES
    db_mandate_type,     \* the store: mandate_type of each stored mandate
    db_amount_captured,  \* the store: amount_captured of each stored mandate
    db_connector_mandate_id,   \* the store: connector_mandate_id of each stored mandate
    db_connector_mandate_ids,  \* the store: connector_mandate_ids of each stored mandate
    db_payment_method_id,      \* the store: payment_method_id of each stored mandate
    inserted,            \* the store: ids of the mandates insert_mandate added
    args,                \* the arguments of each call
    orig_mandate,        \* the columns each call has read
    call_ret,            \* the RouterResult of each call
    captured             \* history: the amounts the successful capture updates added

storeVars == <<db_mandate_type, db_amount_captured, db_connector_mandate_id,
               db_connector_mandate_ids, db_payment_method_id, inserted>>

procedureVars == <<storeVars, args, orig_mandate, call_ret, captured>>

mandateVars == <<db, call_pc, req, mandate, response, wrote, revoke_ret, procedureVars>>

\* What the evaluator never touches.
outside == <<anVars, keyVars, refundVars, mandateVars>>

vars == <<SEED_DATA, pc, rule, dir_rule, valid_connectors, invalid_connectors, ctx_manager,
          ctx, idx, ret, memo, memo_reads, yielded, advance_calls, analysis_calls, earlier,
          mcas, outside>>

\* What is local to one get_valid_connectors_for_rule call.
locals == <<rule, dir_rule, valid_connectors, invalid_connectors, ctx_manager, ctx, idx,
            memo, memo_reads, yielded, advance_calls, analysis_calls>>

\* No rule argument: no call is in progress.
NoRule == [valid |-> FALSE, statements |-> <<>>]

Unseeded == [set |-> FALSE, cgraph |-> {}, connectors |-> <<>>]

NoReturn == [kind |-> "None", list |-> <<>>, err |-> ""]
Ok(list) == [kind |-> "Ok", list |-> list, err |-> ""]
OkNull == [kind |-> "Null", list |-> <<>>, err |-> ""]
Err(e) == [kind |-> "Err", list |-> <<>>, err |-> e]

\* The locals set up after the rule has been lowered.
frame == <<dir_rule, valid_connectors, invalid_connectors, ctx_manager, ctx, idx,
           memo, memo_reads, yielded, advance_calls, analysis_calls>>

\* The locals of a call that has set up nothing yet.
FreshLocals ==
    /\ rule = NoRule
    /\ dir_rule = [ok |-> FALSE, rule |-> <<>>]
    /\ valid_connectors = <<>>
    /\ invalid_connectors = {}
    /\ ctx_manager = NoManager
    /\ ctx = <<>>
    /\ idx = 0
    /\ memo = Memoization_new
    /\ memo_reads = {}
    /\ yielded = <<>>
    /\ advance_calls = 0
    /\ analysis_calls = 0

\* The locals of a call go out of scope when it has returned.
ResetLocals ==
    /\ rule' = NoRule
    /\ dir_rule' = [ok |-> FALSE, rule |-> <<>>]
    /\ valid_connectors' = <<>>
    /\ invalid_connectors' = {}
    /\ ctx_manager' = NoManager
    /\ ctx' = <<>>
    /\ idx' = 0
    /\ memo' = Memoization_new
    /\ memo_reads' = {}
    /\ yielded' = <<>>
    /\ advance_calls' = 0
    /\ analysis_calls' = 0

\* No analysis has been asked for on its own.
NotAnalysed == [done |-> FALSE, is_err |-> FALSE, node |-> 0]

AnalysisIdle ==
    /\ an_graph = {}
    /\ an_ctx = <<>>
    /\ an_result = NotAnalysed

\* No seed call has just returned.
NoMcas == [shape |-> "none", names |-> <<>>, edges |-> {}, domains |-> {}]

\* The caller is not repeating an evaluation.
NoEarlier == [rule |-> NoRule, ret |-> NoReturn]

\* The module as loaded: nothing seeded, no call in progress.
EvaluatorIdle ==
    /\ SEED_DATA = Unseeded
    /\ pc = "idle"
    /\ ret = NoReturn
    /\ FreshLocals
    /\ earlier = NoEarlier
    /\ mcas = NoMcas

evaluatorVars == <<SEED_DATA, pc, ret, locals, earlier, mcas>>

\* get_all_keys has not been called.
KeysIdle ==
    /\ VARIANTS = <<>>
    /\ keys = NoReturn

\* No update has been applied to a refund.
ChangesetIdle ==
    /\ cs_pc = "idle"
    /\ cs_source = <<>>
    /\ cs_update = <<>>
    /\ cs_clock = 0
    /\ cs_refund = <<>>

\* No refund has been read or updated.
RefundIdle ==
    /\ serialized_refund = <<>>
    /\ deserialized = NoReturn
    /\ ChangesetIdle

\* The requests a server handles at one time.
Calls == {"call_1", "call_2"}

\* The mandate ids of the store, and one it does not hold.
StoredMandates == {"man_1"}
MandateIds == StoredMandates \cup {"man_unknown"}

\* common_enums::MandateStatus
MandateStatus == {"Active", "Inactive", "Pending", "Revoked"}

\* A request that has read no mandate.
NoMandate == [mandate_id |-> "", mandate_status |-> ""]

\* A request that has not returned.
NoResponse == [kind |-> "None", status |-> "", err |-> "", reason |-> ""]

\* No request is being handled.
CallsIdle ==
    /\ call_pc = [c \in Calls |-> "idle"]
    /\ req = [c \in Calls |-> ""]
    /\ mandate = [c \in Calls |-> NoMandate]
    /\ response = [c \in Calls |-> "none"]
    /\ wrote = [c \in Calls |-> FALSE]
    /\ revoke_ret = [c \in Calls |-> NoResponse]

\* storage_enums::MandateType
MandateType == {"SingleUse", "MultiUse"}

\* Option::None of a column or an argument.
None == "None"

\* An Option<i64> that is None.
NoAmount == -1

\* A call without arguments: no mandate_procedure or
\* update_connector_mandate_id call is in progress.
NoArgs ==
    [response_ok |-> FALSE, mandate_id |-> None, amount |-> 0, setup |-> "absent",
     mandate_reference |-> None, payment_method_id |-> None]

\* A call that has read no mandate.
NoOrigMandate ==
    [mandate_type |-> "", amount_captured |-> NoAmount, connector_mandate_id |-> None]

\* A call that has not returned.
NotReturned == [kind |-> "NotReturned", value |-> "", err |-> ""]

\* No mandate_procedure or update_connector_mandate_id call is in progress.
ProceduresIdle ==
    /\ args = [c \in Calls |-> NoArgs]
    /\ orig_mandate = [c \in Calls |-> NoOrigMandate]
    /\ call_ret = [c \in Calls |-> NotReturned]

\* The columns revoke_mandate does not read: a multi-use mandate that has
\* captured nothing and has no connector reference.
ColumnsIdle ==
    /\ db_mandate_type = [m \in StoredMandates |-> "MultiUse"]
    /\ db_amount_captured = [m \in StoredMandates |-> NoAmount]
    /\ db_connector_mandate_id = [m \in StoredMandates |-> None]
    /\ db_connector_mandate_ids = [m \in StoredMandates |-> None]
    /\ db_payment_method_id = [m \in StoredMandates |-> "pm_old"]
    /\ inserted = {}
    /\ captured = [m \in StoredMandates |-> 0]

\* The stored mandate is active and no request is being handled.
MandateIdle ==
    /\ db = [m \in StoredMandates |-> "Active"]
    /\ CallsIdle
    /\ ColumnsIdle
    /\ ProceduresIdle

Init ==
    /\ EvaluatorIdle
    /\ AnalysisIdle
    /\ KeysIdle
    /\ RefundIdle
    /\ MandateIdle

(* ------------------------ seed_knowledge_graph ------------------------ *)

\* The payloads of a seed call: a value that does not deserialize, accounts
\* no graph can be built from, or well-formed accounts.
McaInputs ==
    [shape : {"malformed", "unbuildable", "ok"}, names : McaNameLists,
     edges : McaGraphs, domains : McaDomainTables]

\* An unset cell read as if it held the empty seed.
OnceLock_get_or_default(cell) == [some |-> TRUE, data |-> cell]

\* OnceLock::get: the stored value, if one was stored.
OnceLock_get(cell) == [some |-> cell.set, data |-> cell]

\* The cell overwritten whatever it holds.
OnceLock_overwrite(cell, value) == value

\* OnceLock::set: stores the value only while the cell is unset.
OnceLock_set(cell, value) == IF cell.set THEN cell ELSE value

\* Every check passed over: no payload is refused.
SeedFailure_none(payload) == ""

\* Lines 121-143: the error the first failing `?` returns, "" when the
\* payload deserializes, every name parses, the merchant graph is built and
\* combines with the global graph.
SeedFailure(payload) ==
    IF payload.shape = "malformed" THEN "deserialize"
    ELSE IF \E k \in DOMAIN payload.names : ~from_str(payload.names[k]).ok
    THEN "invalid connector name received"
    ELSE IF ~make_mca_graph(payload).ok THEN "graph construction"
    ELSE IF DomainIdCollision(make_mca_graph(payload).domains, ANALYSIS_DOMAINS)
    THEN "DomainIdCollision"
    ELSE ""

\* seed_knowledge_graph(mcas): a payload that fails a check is refused before
\* the cell is touched; otherwise the connector list and the combined graph
\* are stored once, and a call that finds the cell set fails and stores
\* nothing.
seed_knowledge_graph ==
    /\ pc = "idle"
    /\ \E payload \in McaInputs :
          LET connectors == [k \in DOMAIN payload.names |-> from_str(payload.names[k]).connector]
              analysis_graph == combine(make_mca_graph(payload).edges, ANALYSIS_GRAPH)
              seed == [set |-> TRUE, cgraph |-> analysis_graph, connectors |-> connectors]
          IN /\ mcas' = payload
             /\ IF SeedFailure(payload) # "" THEN
                   /\ ret' = Err(SeedFailure(payload))
                   /\ UNCHANGED SEED_DATA
                ELSE
                   /\ SEED_DATA' = OnceLock_set(SEED_DATA, seed)
                   /\ ret' = IF SEED_DATA.set
                             THEN Err("Knowledge Graph has been already seeded")
                             ELSE OkNull
    /\ pc' = "returned"
    /\ UNCHANGED <<locals, earlier>>
    /\ UNCHANGED outside

(* ------------------- get_valid_connectors_for_rule -------------------- *)

\* The lowering error dropped: the evaluation goes on with what was lowered.
AfterLowering_lenient(lowered) == "while"

\* Line 164: `lower_rule(rule).err_to_js()?` returns the lowering error from
\* the function before anything else is set up.
AfterLowering(lowered) == IF lowered.ok THEN "while" ELSE "returned"

\* The set of an earlier call taken over instead of a new one.
HashSet_kept(previous) == previous

\* Line 176: `HashSet::new()`, the invalid set of this call.
HashSet_new(previous) == {}

\* Lines 161-176: the seed is read, the rule deserialized and lowered, the
\* candidate list, the empty invalid set and the context manager set up.
\* Each `?` returns its error at once. The caller either makes a call of its
\* own or, holding the list a call has just returned, makes the same call
\* again.
Entry ==
    /\ pc \in {"idle", "returned"}
    /\ \E js_rule \in (IF pc = "returned" THEN {rule} ELSE RuleInputs) :
          LET lowered == lower_rule(js_rule.statements) IN
          /\ \/ /\ pc = "idle"
                /\ earlier' = NoEarlier
             \/ /\ pc = "returned"
                /\ ret.kind = "Ok"
                /\ earlier = NoEarlier
                /\ js_rule = rule
                /\ earlier' = [rule |-> rule, ret |-> ret]
          /\ rule' = js_rule
          /\ IF ~OnceLock_get(SEED_DATA).some THEN
              /\ ret' = Err("Data not seeded")
              /\ pc' = "returned" /\ UNCHANGED frame
             ELSE IF ~js_rule.valid THEN
              /\ ret' = Err("deserialize")
              /\ pc' = "returned" /\ UNCHANGED frame
             ELSE IF AfterLowering(lowered) = "returned" THEN
              /\ ret' = Err("lowering")
              /\ pc' = "returned" /\ UNCHANGED frame
             ELSE
              /\ ret' = NoReturn
              /\ pc' = "while"
              /\ dir_rule' = lowered
              /\ valid_connectors' = SEED_DATA.connectors
              /\ invalid_connectors' = HashSet_new(invalid_connectors)
              /\ ctx_manager' = RuleContextManager_new(lowered.rule)
              /\ ctx' = <<>>
              /\ idx' = 0
              /\ memo' = Memoization_new
              /\ memo_reads' = {}
              /\ yielded' = <<>>
              /\ advance_calls' = 0
              /\ analysis_calls' = 0
    /\ UNCHANGED <<SEED_DATA, mcas>>
    /\ UNCHANGED outside

\* Line 179: `while let Some(ctx) = ctx_manager.advance_mut()`.
WhileLet ==
    /\ pc = "while"
    /\ LET a == advance_mut(dir_rule.rule, ctx_manager) IN
          /\ ctx_manager' = a.manager
          /\ advance_calls' = advance_calls + 1
          /\ ctx' = a.ctx
          /\ yielded' = IF a.some THEN Append(yielded, a.pair) ELSE yielded
          /\ pc' = IF a.some THEN "bare" ELSE "retain"
    /\ UNCHANGED <<SEED_DATA, rule, dir_rule, valid_connectors, invalid_connectors, idx, ret,
                   memo, memo_reads, analysis_calls>>
    /\ UNCHANGED <<earlier, mcas, outside>>

\* The error of the standalone analysis swallowed: the loop goes on to the
\* next context.
AfterBare_skip(analysis_result) ==
    IF analysis_result.is_err
    THEN [pc |-> "while", ret |-> NoReturn]
    ELSE [pc |-> "for", ret |-> NoReturn]

\* Line 189: `.err_to_js()?` on the standalone analysis returns its error
\* from the whole function; on success the candidate loop starts.
AfterBare(analysis_result) ==
    IF analysis_result.is_err
    THEN [pc |-> "returned", ret |-> Err("analysis")]
    ELSE [pc |-> "for", ret |-> NoReturn]

\* One table kept for the whole evaluation and handed to every analysis.
FreshMemo_reused(previous) == previous

\* Lines 186 and 201: `&mut hyperswitch_constraint_graph::Memoization::new()`,
\* a new table for each call, whatever the call before left.
FreshMemo(previous) == Memoization_new

\* Lines 182-189: the standalone analysis of the context the manager yielded.
BareAnalysis ==
    /\ pc = "bare"
    /\ LET a == analysis_with_memo(SEED_DATA.cgraph, ctx, FreshMemo(memo))
           r == a.result
           after == AfterBare(r)
       IN /\ analysis_calls' = analysis_calls + 1
          /\ memo' = a.memo
          /\ memo_reads' = a.reads
          /\ pc' = after.pc
          /\ ret' = after.ret
          /\ idx' = IF after.pc = "for" THEN 1 ELSE idx
    /\ UNCHANGED <<SEED_DATA, rule, dir_rule, valid_connectors, invalid_connectors, ctx_manager,
                   ctx, yielded, advance_calls>>
    /\ UNCHANGED <<earlier, mcas, outside>>

\* The skip left out: every candidate is pushed under every context.
SkipsCandidate_never(invalid, conn) == FALSE

\* Line 193: `if invalid_connectors.contains(conn) { continue; }`
SkipsCandidate(invalid, conn) == conn \in invalid

\* Lines 192-198: the loop header, the skip of an invalid connector, and the
\* push of the connector assertion.
ForNext ==
    /\ pc = "for"
    /\ IF idx > Len(valid_connectors)
       THEN /\ pc' = "while"
            /\ UNCHANGED <<idx, ctx>>
       ELSE IF SkipsCandidate(invalid_connectors, valid_connectors[idx])
       THEN /\ idx' = idx + 1
            /\ UNCHANGED <<pc, ctx>>
       ELSE /\ ctx' = Append(ctx, ConnectorValue(valid_connectors[idx]))
            /\ pc' = "pushed"
            /\ UNCHANGED idx
    /\ UNCHANGED <<SEED_DATA, rule, dir_rule, valid_connectors, invalid_connectors, ctx_manager,
                   ret, memo, memo_reads, yielded, advance_calls, analysis_calls>>
    /\ UNCHANGED <<earlier, mcas, outside>>

\* The test inverted: a connector is marked when its analysis succeeds.
MarkInvalid_inverted(invalid, conn, analysis_result) ==
    IF analysis_result.is_err THEN invalid ELSE invalid \cup {conn}

\* The insertion lost: the set the loop reads is never changed.
MarkInvalid_ignored(invalid, conn, analysis_result) == invalid

\* Lines 204-206: a failed analysis marks the connector invalid.
MarkInvalid(invalid, conn, analysis_result) ==
    IF analysis_result.is_err THEN invalid \cup {conn} ELSE invalid

\* The pop reached only when the analysis succeeded.
PopAssertion_on_ok(c, analysis_result) ==
    IF analysis_result.is_err THEN c ELSE SubSeq(c, 1, Len(c) - 1)

\* Line 207: `ctx.pop()`, whatever the analysis said.
PopAssertion(c, analysis_result) == SubSeq(c, 1, Len(c) - 1)

\* Lines 199-207: the analysis of the context with the connector assertion,
\* the insertion into the invalid set, and the pop.
AnalyseCandidate ==
    /\ pc = "pushed"
    /\ LET a == analysis_with_memo(SEED_DATA.cgraph, ctx, FreshMemo(memo))
           r == a.result
       IN /\ analysis_calls' = analysis_calls + 1
          /\ memo' = a.memo
          /\ memo_reads' = a.reads
          /\ invalid_connectors' = MarkInvalid(invalid_connectors, valid_connectors[idx], r)
          /\ ctx' = PopAssertion(ctx, r)
    /\ idx' = idx + 1
    /\ pc' = "for"
    /\ UNCHANGED <<SEED_DATA, rule, dir_rule, valid_connectors, ctx_manager, ret, yielded,
                   advance_calls>>
    /\ UNCHANGED <<earlier, mcas, outside>>

\* The negation of the predicate left out: the invalid connectors are kept.
retain_invalid(list, invalid) == SelectSeq(list, LAMBDA k : k \in invalid)

\* Line 211: `valid_connectors.retain(|(k, _)| !invalid_connectors.contains(k))`.
retain(list, invalid) == SelectSeq(list, LAMBDA k : k \notin invalid)

\* Lines 211-216: the invalid connectors are dropped and the list returned.
Return ==
    /\ pc = "retain"
    /\ valid_connectors' = retain(valid_connectors, invalid_connectors)
    /\ ret' = Ok(valid_connectors')
    /\ pc' = "returned"
    /\ UNCHANGED <<SEED_DATA, rule, dir_rule, invalid_connectors, ctx_manager, ctx, idx,
                   memo, memo_reads, yielded, advance_calls, analysis_calls>>
    /\ UNCHANGED <<earlier, mcas, outside>>

\* The JsResult is handed to the JavaScript caller and the call's locals are
\* dropped; the module is ready for the next call.
DropFrame ==
    /\ pc = "returned"
    /\ pc' = "idle"
    /\ ret' = NoReturn
    /\ ResetLocals
    /\ earlier' = NoEarlier
    /\ mcas' = NoMcas
    /\ UNCHANGED SEED_DATA
    /\ UNCHANGED outside

Next ==
    \/ seed_knowledge_graph
    \/ Entry
    \/ WhileLet
    \/ BareAnalysis
    \/ ForNext
    \/ AnalyseCandidate
    \/ Return
    \/ DropFrame

Spec == Init /\ [][Next]_vars

(* ------------------- perform_context_analysis alone ------------------- *)

\* Longest context handed to an analysis on its own.
MaxCtxLen == 3

\* The assertions a context may hold.
Assertions ==
    {DirValue("CardNetwork", v) : v \in CardNetworks}
    \cup {ConnectorValue(c) : c \in RoutableConnectors}

\* Contexts in every push order, repeats included.
Contexts == UNION {[1..n -> Assertions] : n \in 0..MaxCtxLen}

\* Graphs with an aggregator over the card networks: one that joins both
\* networks, one that holds Visa alone.
AggregatorGraphs ==
    { {<<AggregatorNode("CardNetwork"), DirValue("CardNetwork", "Visa")>>,
       <<AggregatorNode("CardNetwork"), DirValue("CardNetwork", "Mastercard")>>},
      {<<AggregatorNode("CardNetwork"), DirValue("CardNetwork", "Visa")>>,
       <<ConnectorValue("stripe"), DirValue("CardNetwork", "Visa")>>} }

InitAnalysis ==
    /\ EvaluatorIdle
    /\ KeysIdle
    /\ RefundIdle
    /\ MandateIdle
    /\ an_graph \in McaGraphs \cup AggregatorGraphs
    /\ an_ctx \in Contexts
    /\ an_result = NotAnalysed

\* The analysis of the context against the graph, with a table of its own.
Analyse ==
    /\ ~an_result.done
    /\ LET r == perform_context_analysis(an_graph, an_ctx) IN
          an_result' = [done |-> TRUE, is_err |-> r.is_err, node |-> r.node]
    /\ UNCHANGED <<an_graph, an_ctx, evaluatorVars, keyVars, refundVars, mandateVars>>

NextAnalysis == Analyse

SpecAnalysis == InitAnalysis /\ [][NextAnalysis]_vars

(* ---------------------------- get_all_keys ---------------------------- *)

\* Largest number of DirKeyKind variants.
MaxVariants == 3

\* Lines 246-256: the keys left out of the routing keys.
excluded_keys ==
    << "Connector", "issuer_name", "issuer_country", "customer_device_platform",
       "customer_device_type", "customer_device_display_size", "acquirer_country",
       "acquirer_fraud_rate" >>

\* Names a DirKeyKind variant may serialize to: the excluded ones, routing
\* keys, and one that differs from an excluded name in case only.
KeyNames ==
    Range(excluded_keys) \cup {"payment_method", "card_network", "amount", "connector"}

\* The variant tables get_all_keys may be compiled against.
VariantTables == UNION {[1..n -> KeyNames] : n \in 0..MaxVariants}

\* <[&str]>::contains
contains(array, s) == \E k \in DOMAIN array : array[k] = s

\* The filter passing every name.
KeepsKey_all(s) == TRUE

\* Line 261: `|s| !excluded_keys.contains(s)`
KeepsKey(s) == ~contains(excluded_keys, s)

\* Lines 258-262: iter().copied().filter(..).collect() keeps the names that
\* pass the filter in the order of the table.
RECURSIVE collect_filtered(_)
collect_filtered(names) ==
    IF names = <<>> THEN <<>>
    ELSE IF KeepsKey(Head(names))
         THEN <<Head(names)>> \o collect_filtered(Tail(names))
         ELSE collect_filtered(Tail(names))

InitKeys ==
    /\ EvaluatorIdle
    /\ AnalysisIdle
    /\ RefundIdle
    /\ MandateIdle
    /\ VARIANTS \in VariantTables
    /\ keys = NoReturn

\* get_all_keys(): the filtered table, serialized for the caller.
get_all_keys ==
    /\ keys = NoReturn
    /\ keys' = Ok(collect_filtered(VARIANTS))
    /\ UNCHANGED <<VARIANTS, evaluatorVars, anVars, refundVars, mandateVars>>

\* The caller takes the value; the module is ready for the next call.
DropKeys ==
    /\ keys # NoReturn
    /\ keys' = NoReturn
    /\ UNCHANGED <<VARIANTS, evaluatorVars, anVars, refundVars, mandateVars>>

NextKeys ==
    \/ get_all_keys
    \/ DropKeys

SpecKeys == InitKeys /\ [][NextKeys]_vars

(* ------------------- serde_json::from_str::<Refund> ------------------- *)

Required(name) == [name |-> name, optional |-> FALSE]
Optional(name) == [name |-> name, optional |-> TRUE]

\* refund.rs:26-69: the fields of the v1 Refund; an Option field may be
\* absent from the input, any other field must be present.
RefundFields ==
    <<
       Required("internal_reference_id"), Required("refund_id"),
       Required("payment_id"), Required("merchant_id"),
       Required("connector_transaction_id"), Required("connector"),
       Optional("connector_refund_id"), Optional("external_reference_id"),
       Required("refund_type"), Required("total_amount"), Required("currency"),
       Required("refund_amount"), Required("refund_status"),
       Required("sent_to_gateway"), Optional("refund_error_message"),
       Optional("metadata"), Optional("refund_arn"), Required("created_at"),
       Required("modified_at"), Optional("description"), Required("attempt_id"),
       Optional("refund_reason"), Optional("refund_error_code"),
       Optional("profile_id"), Required("updated_by"),
       Optional("merchant_connector_id"), Optional("charges"),
       Required("organization_id"), Optional("connector_refund_data"),
       Optional("connector_transaction_data"), Optional("split_refunds"),
       Optional("unified_code"), Optional("unified_message"),
       Optional("processor_refund_data"), Optional("processor_transaction_data"),
       Optional("issuer_error_code"), Optional("issuer_error_message")
    >>

\* One `"key": value` member of a JSON object and whether a comma follows it.
Member(key, comma) == [key |-> key, comma |-> comma]

\* refund.rs:853-886: the record of test_backwards_compatibility. No comma
\* follows "connector_transaction_data": null, and one follows the last
\* member.
TestRecord ==
    <<
       Member("internal_reference_id", TRUE), Member("refund_id", TRUE),
       Member("payment_id", TRUE), Member("merchant_id", TRUE),
       Member("connector_transaction_id", TRUE), Member("connector", TRUE),
       Member("connector_refund_id", TRUE), Member("external_reference_id", TRUE),
       Member("refund_type", TRUE), Member("total_amount", TRUE),
       Member("currency", TRUE), Member("refund_amount", TRUE),
       Member("refund_status", TRUE), Member("sent_to_gateway", TRUE),
       Member("refund_error_message", TRUE), Member("metadata", TRUE),
       Member("refund_arn", TRUE), Member("created_at", TRUE),
       Member("updated_at", TRUE), Member("description", TRUE),
       Member("attempt_id", TRUE), Member("refund_reason", TRUE),
       Member("refund_error_code", TRUE), Member("profile_id", TRUE),
       Member("updated_by", TRUE), Member("merchant_connector_id", TRUE),
       Member("charges", TRUE), Member("connector_transaction_data", FALSE),
       Member("unified_code", TRUE), Member("unified_message", TRUE),
       Member("processor_transaction_data", TRUE)
    >>

\* Changes to the test's record: the missing comma put in, the trailing
\* comma taken out, and keys of later fields added (before the last member).
Repairs ==
    SUBSET {"separator", "trailing", "modified_at", "organization_id", "split_refunds",
            "processor_refund_data", "issuer_error_code"}

AddedKeys(repairs) ==
    SetToSeq(repairs \ {"separator", "trailing"})

\* The test's record with the repairs made.
Repaired(repairs) ==
    LET n == Len(TestRecord)
        body == [k \in 1..(n - 1) |->
                    Member(TestRecord[k].key,
                           TestRecord[k].comma \/ "separator" \in repairs)]
        added == [k \in DOMAIN AddedKeys(repairs) |-> Member(AddedKeys(repairs)[k], TRUE)]
        last == Member(TestRecord[n].key, "trailing" \notin repairs)
    IN body \o added \o <<last>>

\* serde_json's object grammar: a comma after every member but the last,
\* none after the last.
ObjectSyntax(members) ==
    /\ \A k \in 1..(Len(members) - 1) : members[k].comma
    /\ members # <<>> => ~members[Len(members)].comma

\* The fields the derived Deserialize finds no key for and cannot default.
MissingFields(members) ==
    {k \in DOMAIN RefundFields :
        /\ ~RefundFields[k].optional
        /\ \A m \in DOMAIN members : members[m].key # RefundFields[k].name}

\* serde_json::from_str::<Refund>: a syntax error ends the parse; unknown
\* keys are skipped; an absent Option field is None; an absent field of any
\* other type is an error.
from_str_Refund(members) ==
    IF ~ObjectSyntax(members) THEN Err("syntax")
    ELSE IF MissingFields(members) # {} THEN Err("missing field")
    ELSE Ok(<<>>)

InitRefund ==
    /\ EvaluatorIdle
    /\ AnalysisIdle
    /\ KeysIdle
    /\ MandateIdle
    /\ serialized_refund \in {Repaired(r) : r \in Repairs}
    /\ deserialized = NoReturn
    /\ ChangesetIdle

\* refund.rs:887: `serde_json::from_str::<super::Refund>(serialized_refund)`
test_backwards_compatibility ==
    /\ deserialized = NoReturn
    /\ deserialized' = from_str_Refund(serialized_refund)
    /\ UNCHANGED <<serialized_refund, changesetVars, evaluatorVars, anVars, keyVars,
                   mandateVars>>

NextRefund == test_backwards_compatibility

SpecRefund == InitRefund /\ [][NextRefund]_vars

(* -------------------- RefundUpdate::apply_changeset ------------------- *)

\* The names of the fields of the v1 Refund.
FieldNames == {RefundFields[k].name : k \in DOMAIN RefundFields}

\* The names of its Option fields.
OptionNames == {RefundFields[k].name : k \in {j \in DOMAIN RefundFields : RefundFields[j].optional}}

\* refund.rs:216-258: the variants of the v1 RefundUpdate.
Variants ==
    {"Update", "MetadataAndReasonUpdate", "StatusUpdate", "ErrorUpdate", "ManualUpdate"}

\* The fields of a variant that are not Option.
RequiredOf(variant) ==
    CASE variant = "Update" ->
            {"connector_refund_id", "refund_status", "sent_to_gateway", "refund_arn",
             "updated_by"}
      [] variant = "StatusUpdate" -> {"sent_to_gateway", "refund_status", "updated_by"}
      [] OTHER -> {"updated_by"}

\* The Option fields of a variant.
OptionsOf(variant) ==
    CASE variant = "Update" -> {"refund_error_message", "processor_refund_data"}
      [] variant = "MetadataAndReasonUpdate" -> {"metadata", "reason"}
      [] variant = "StatusUpdate" -> {"connector_refund_id", "processor_refund_data"}
      [] variant = "ErrorUpdate" ->
            {"refund_status", "refund_error_message", "refund_error_code",
             "connector_refund_id", "processor_refund_data", "unified_code",
             "unified_message", "issuer_error_code", "issuer_error_message"}
      [] variant = "ManualUpdate" ->
            {"refund_status", "refund_error_message", "refund_error_code"}

\* The value an update carries in a field.
NewValue(name) ==
    CASE name = "refund_status" -> "Failure"
      [] name = "sent_to_gateway" -> "true"
      [] name = "updated_by" -> "new_user"
      [] OTHER -> "new"

\* The updates of a variant: every choice of the Option fields that are Some.
UpdatesOf(variant) ==
    {[variant |-> variant,
      fields |-> [name \in RequiredOf(variant) \cup OptionsOf(variant) |->
                     IF name \in RequiredOf(variant) \cup some THEN NewValue(name) ELSE None]] :
        some \in SUBSET OptionsOf(variant)}

RefundUpdates == UNION {UpdatesOf(variant) : variant \in Variants}

\* refund.rs:302-321: the fields of the v1 RefundUpdateInternal.
InternalNames ==
    {"connector_refund_id", "refund_status", "sent_to_gateway", "refund_error_message",
     "refund_arn", "metadata", "refund_reason", "refund_error_code", "updated_by",
     "modified_at", "processor_refund_data", "unified_code", "unified_message",
     "issuer_error_code", "issuer_error_message"}

\* The field of a variant that a field of RefundUpdateInternal is built from.
FieldOf(name) == IF name = "refund_reason" THEN "reason" ELSE name

\* refund.rs:386-511: From<RefundUpdate> for RefundUpdateInternal: a field of
\* the variant goes into the field of that name (reason into refund_reason),
\* a field the variant lacks is None, modified_at is the time of the call.
into(update, now) ==
    [name \in InternalNames |->
        IF name = "modified_at" THEN now
        ELSE IF FieldOf(name) \in DOMAIN update.fields THEN update.fields[FieldOf(name)]
        ELSE None]

\* The times date_time::now() can return; a refund in the store was
\* modified at time 0.
Times == {0, 1}

\* The refunds an update is applied to: every Option field None or every one
\* Some, sent to the gateway or not.
SourceRefunds ==
    {[name \in FieldNames |->
         CASE name = "refund_status" -> "Pending"
           [] name = "sent_to_gateway" -> sent
           [] name = "updated_by" -> "old_user"
           [] name = "modified_at" -> 0
           [] name = "created_at" -> 0
           [] name \in OptionNames -> option
           [] OTHER -> "source"] :
        sent \in {"true", "false"}, option \in {None, "old"}}

\* Option::or, and Option::unwrap_or
Option_or(option, other) == IF option = None THEN other ELSE option

\* The fields set with `.or(source.x)` or `.unwrap_or(source.x)`.
MergedNames == InternalNames \ {"updated_by", "modified_at"}

\* The update's values put in place of the source's, present or not.
apply_changeset_replacing(update, source, now) ==
    [name \in FieldNames |->
        CASE name \in MergedNames -> into(update, now)[name]
          [] name = "updated_by" -> into(update, now).updated_by
          [] name = "modified_at" -> now
          [] OTHER -> source[name]]

\* refund.rs:628-667: the v1 apply_changeset: the merged fields, updated_by
\* of the update, modified_at of the time of the call, and `..source`.
apply_changeset(update, source, now) ==
    [name \in FieldNames |->
        CASE name \in MergedNames -> Option_or(into(update, now)[name], source[name])
          [] name = "updated_by" -> into(update, now).updated_by
          [] name = "modified_at" -> now
          [] OTHER -> source[name]]

InitChangeset ==
    /\ EvaluatorIdle
    /\ AnalysisIdle
    /\ KeysIdle
    /\ MandateIdle
    /\ serialized_refund = <<>>
    /\ deserialized = NoReturn
    /\ cs_pc = "called"
    /\ cs_source \in SourceRefunds
    /\ cs_update \in RefundUpdates
    /\ cs_clock \in Times
    /\ cs_refund = <<>>

\* One call of apply_changeset at the time of the clock.
ApplyChangeset ==
    /\ cs_pc = "called"
    /\ cs_pc' = "returned"
    /\ cs_refund' = apply_changeset(cs_update, cs_source, cs_clock)
    /\ UNCHANGED <<cs_source, cs_update, cs_clock, serialized_refund, deserialized,
                   evaluatorVars, anVars, keyVars, mandateVars>>

NextChangeset == ApplyChangeset

SpecChangeset == InitChangeset /\ [][NextChangeset]_vars

(* --------------------------- revoke_mandate --------------------------- *)

ApiError(e) == [kind |-> "Err", status |-> "", err |-> e, reason |-> ""]

MandateValidationFailed(reason) ==
    [kind |-> "Err", status |-> "", err |-> "MandateValidationFailed", reason |-> reason]

\* ApplicationResponse::Json(MandateRevokedResponse { status, .. })
MandateRevokedResponse(status) ==
    [kind |-> "Json", status |-> status, err |-> "", reason |-> ""]

\* What is left unchanged by a step of revoke_mandate.
notMandate == <<evaluatorVars, anVars, keyVars, refundVars, procedureVars>>

InitMandate ==
    /\ EvaluatorIdle
    /\ AnalysisIdle
    /\ KeysIdle
    /\ RefundIdle
    /\ db \in [StoredMandates -> MandateStatus]
    /\ CallsIdle
    /\ ColumnsIdle
    /\ ProceduresIdle

\* The request returns its response and stops.
Returns(c, result) ==
    /\ revoke_ret' = [revoke_ret EXCEPT ![c] = result]
    /\ call_pc' = [call_pc EXCEPT ![c] = "returned"]

\* The request goes on to its next step.
Goes(c, step) ==
    /\ call_pc' = [call_pc EXCEPT ![c] = step]
    /\ UNCHANGED revoke_ret

\* A request arrives with a mandate id.
ReceiveRequest(c) ==
    /\ call_pc[c] = "idle"
    /\ \E id \in MandateIds : req' = [req EXCEPT ![c] = id]
    /\ Goes(c, "find")
    /\ UNCHANGED <<db, mandate, response, wrote, notMandate>>

\* Every status taken for one that can still be revoked.
MatchStatus_any(status) == "profile"

\* Lines 76-79 and 160: the match on the status that was read.
MatchStatus(status) ==
    IF status \in {"Active", "Inactive", "Pending"} THEN "profile" ELSE "already_revoked"

\* Lines 68-79, 160-165: find_mandate_by_merchant_id_mandate_id, its error
\* turned into MandateNotFound, and the match on the status read; a revoked
\* mandate is refused on the spot.
FindMandate(c) ==
    /\ call_pc[c] = "find"
    /\ \E found \in BOOLEAN :
          /\ found => req[c] \in StoredMandates
          /\ IF ~found THEN
                /\ Returns(c, ApiError("MandateNotFound"))
                /\ UNCHANGED mandate
             ELSE
                /\ mandate' = [mandate EXCEPT ![c] =
                                  [mandate_id |-> req[c], mandate_status |-> db[req[c]]]]
                /\ IF MatchStatus(db[req[c]]) = "profile"
                   THEN Goes(c, "profile")
                   ELSE Returns(c, MandateValidationFailed("Mandate has already been revoked"))
    /\ UNCHANGED <<db, req, response, wrote, notMandate>>

\* A step that ends in `?`: it succeeds and the request goes on, or it fails
\* and its error is the response.
FallibleStep(c, at, next, error) ==
    /\ call_pc[c] = at
    /\ \E ok \in BOOLEAN :
          IF ok THEN Goes(c, next) ELSE Returns(c, ApiError(error))
    /\ UNCHANGED <<db, req, mandate, response, wrote, notMandate>>

\* Lines 80-82: helpers::get_profile_id_for_mandate(..).await?
GetProfileId(c) ==
    FallibleStep(c, "profile", "account", "get_profile_id_for_mandate")

\* Lines 84-93: payment_helper::get_merchant_connector_account(..).await?
GetMerchantConnectorAccount(c) ==
    FallibleStep(c, "account", "connector", "get_merchant_connector_account")

\* Lines 95-105: ConnectorData::get_connector_by_name(..)? and the
\* connector's integration.
GetConnectorByName(c) ==
    FallibleStep(c, "connector", "router_data", "get_connector_by_name")

\* Lines 107-113: utils::construct_mandate_revoke_router_data(..).await?
ConstructRouterData(c) ==
    FallibleStep(c, "router_data", "execute", "construct_mandate_revoke_router_data")

\* The store updated whatever the connector answered.
AfterResponse_always_update(answer) == "update"

\* Lines 126-127, 150: the match on response.response.
AfterResponse(answer) == IF answer = "Ok" THEN "update" ELSE "connector_error"

\* Lines 115-157: execute_connector_processing_step; its own failure becomes
\* InternalServerError, an error response of the connector becomes
\* ExternalConnectorError, an Ok response leads to the update.
ExecuteConnectorProcessingStep(c) ==
    /\ call_pc[c] = "execute"
    /\ \E outcome \in {"failed", "Ok", "Err"} :
          /\ response' = [response EXCEPT ![c] = outcome]
          /\ IF outcome = "failed" THEN Returns(c, ApiError("InternalServerError"))
             ELSE IF AfterResponse(outcome) = "update" THEN Goes(c, "update")
             ELSE Returns(c, ApiError("ExternalConnectorError"))
    /\ UNCHANGED <<db, req, mandate, wrote, notMandate>>

\* Lines 128-147: update_mandate_by_merchant_id_mandate_id with
\* StatusUpdate { Revoked }; its error is turned into MandateNotFound, and
\* the response carries the status of the updated record.
UpdateMandate(c) ==
    /\ call_pc[c] = "update"
    /\ \E updated \in BOOLEAN :
          IF updated THEN
             /\ db' = [db EXCEPT ![req[c]] = "Revoked"]
             /\ wrote' = [wrote EXCEPT ![c] = TRUE]
             /\ Returns(c, MandateRevokedResponse(db'[req[c]]))
          ELSE
             /\ Returns(c, ApiError("MandateNotFound"))
             /\ UNCHANGED <<db, wrote>>
    /\ UNCHANGED <<req, mandate, response, notMandate>>

\* The response is sent; the request's locals are dropped.
SendResponse(c) ==
    /\ call_pc[c] = "returned"
    /\ call_pc' = [call_pc EXCEPT ![c] = "idle"]
    /\ req' = [req EXCEPT ![c] = ""]
    /\ mandate' = [mandate EXCEPT ![c] = NoMandate]
    /\ response' = [response EXCEPT ![c] = "none"]
    /\ wrote' = [wrote EXCEPT ![c] = FALSE]
    /\ revoke_ret' = [revoke_ret EXCEPT ![c] = NoResponse]
    /\ UNCHANGED <<db, notMandate>>

revoke_mandate(c) ==
    \/ FindMandate(c)
    \/ GetProfileId(c)
    \/ GetMerchantConnectorAccount(c)
    \/ GetConnectorByName(c)
    \/ ConstructRouterData(c)
    \/ ExecuteConnectorProcessingStep(c)
    \/ UpdateMandate(c)

NextMandate ==
    \E c \in Calls :
        \/ ReceiveRequest(c)
        \/ revoke_mandate(c)
        \/ SendResponse(c)

SpecMandate == InitMandate /\ [][NextMandate]_vars

(* ------------------- the mandate store's update call ------------------ *)

\* What no function of the mandate core touches.
notStore == <<evaluatorVars, anVars, keyVars, refundVars>>

\* revoke_mandate's locals and history.
revokeVars == <<req, mandate, response, wrote, revoke_ret>>

\* storage::MandateUpdate: the variant and the columns it names.
MandateUpdate(kind) ==
    [kind |-> kind, mandate_status |-> None, amount_captured |-> NoAmount,
     connector_mandate_id |-> None, connector_mandate_ids |-> None,
     payment_method_id |-> None]

\* update_mandate_by_merchant_id_mandate_id: the columns the variant names
\* are set on the stored row; a column given as None, and every column the
\* variant does not name, keeps its stored value.
StoreUpdate(id, update) ==
    /\ db' = IF update.kind = "StatusUpdate"
             THEN [db EXCEPT ![id] = update.mandate_status] ELSE db
    /\ db_amount_captured' =
          IF update.kind = "CaptureAmountUpdate"
          THEN [db_amount_captured EXCEPT ![id] = update.amount_captured]
          ELSE db_amount_captured
    /\ db_connector_mandate_id' =
          IF update.kind = "ConnectorMandateIdUpdate" /\ update.connector_mandate_id # None
          THEN [db_connector_mandate_id EXCEPT ![id] = update.connector_mandate_id]
          ELSE db_connector_mandate_id
    /\ db_connector_mandate_ids' =
          IF update.kind \in {"ConnectorMandateIdUpdate", "ConnectorReferenceUpdate"}
          THEN [db_connector_mandate_ids EXCEPT ![id] = update.connector_mandate_ids]
          ELSE db_connector_mandate_ids
    /\ db_payment_method_id' =
          IF update.kind = "ConnectorMandateIdUpdate"
          THEN [db_payment_method_id EXCEPT ![id] = update.payment_method_id]
          ELSE db_payment_method_id
    /\ UNCHANGED <<db_mandate_type, inserted>>

(* -------------------------- mandate_procedure ------------------------- *)

\* Largest amount of one payment request.
MaxAmount == 2
\* Largest total a mandate is let to capture.
MaxCaptured == 4

\* Option::unwrap_or
unwrap_or(option, default) == IF option = NoAmount THEN default ELSE option

RECURSIVE SumOfAmounts(_)
\* The amounts of the calls of a set.
SumOfAmounts(calls) ==
    IF calls = {} THEN 0
    ELSE LET c == CHOOSE x \in calls : TRUE
         IN args[c].amount + SumOfAmounts(calls \ {c})

\* The arguments of a mandate_procedure call: the connector's response, the
\* mandate id of the request (absent, a reference without id, or an id), the
\* amount, and what the request says about setting up a new mandate.
ProcedureArgs ==
    {a \in [response_ok : BOOLEAN,
            mandate_id : {None, "NoId"} \cup MandateIds,
            amount : 1..MaxAmount,
            setup : {"absent", "invalid", "declined", "new"},
            mandate_reference : {None},
            payment_method_id : {None}] :
        a.mandate_id = None \/ a.setup = "absent"}

\* The call returns its result and stops.
ProcedureReturns(c, result) ==
    /\ call_ret' = [call_ret EXCEPT ![c] = result]
    /\ call_pc' = [call_pc EXCEPT ![c] = "mp_returned"]

\* The call goes on to its next store operation.
ProcedureGoes(c, step) ==
    /\ call_pc' = [call_pc EXCEPT ![c] = step]
    /\ UNCHANGED call_ret

OkNone == [kind |-> "None", value |-> "", err |-> ""]
OkSome(id) == [kind |-> "Some", value |-> id, err |-> ""]
RouterError(e) == [kind |-> "Err", value |-> "", err |-> e]

\* Lines 289-297, 343-381: what the call does before its first store
\* operation: Ok(None) on an error response, on a mandate reference without
\* id, without set-up details and when generate_mandate yields nothing; an
\* error when the new mandate cannot be built; otherwise the look-up of the
\* mandate the request names, or the insert of a new one.
AfterArguments(a) ==
    IF ~a.response_ok THEN "none"
    ELSE IF a.mandate_id = "NoId" THEN "none"
    ELSE IF a.mandate_id # None THEN "mp_find"
    ELSE IF a.setup \in {"absent", "declined"} THEN "none"
    ELSE IF a.setup = "invalid" THEN "error"
    ELSE "mp_insert"

\* mandate_procedure is called: lines 277-297 and 343-381.
ProcedureEntry(c) ==
    /\ call_pc[c] = "idle"
    /\ \E a \in ProcedureArgs :
          /\ \A m \in StoredMandates :
                captured[m] + SumOfAmounts(Calls) + a.amount <= MaxCaptured
          /\ args' = [args EXCEPT ![c] = a]
          /\ CASE AfterArguments(a) = "none" -> ProcedureReturns(c, OkNone)
               [] AfterArguments(a) = "error" ->
                     ProcedureReturns(c, RouterError("generate_mandate"))
               [] OTHER -> ProcedureGoes(c, AfterArguments(a))
    /\ UNCHANGED <<db, storeVars, orig_mandate, captured, revokeVars, notStore>>

\* Lines 298-306: find_mandate_by_merchant_id_mandate_id, its error turned
\* into MandateNotFound.
FindOrigMandate(c) ==
    /\ call_pc[c] = "mp_find"
    /\ \E found \in BOOLEAN :
          /\ found => args[c].mandate_id \in StoredMandates
          /\ IF ~found THEN
                /\ ProcedureReturns(c, RouterError("MandateNotFound"))
                /\ UNCHANGED orig_mandate
             ELSE
                /\ orig_mandate' = [orig_mandate EXCEPT ![c] =
                      [mandate_type |-> db_mandate_type[args[c].mandate_id],
                       amount_captured |-> db_amount_captured[args[c].mandate_id],
                       connector_mandate_id |-> db_connector_mandate_id[args[c].mandate_id]]]
                /\ ProcedureGoes(c, "mp_update")
    /\ UNCHANGED <<db, storeVars, args, captured, revokeVars, notStore>>

\* The amount of the request written as the total, whatever was captured.
CaptureAmountUpdate_request_only(orig, amount) ==
    [MandateUpdate("CaptureAmountUpdate") EXCEPT !.amount_captured = amount]

\* Lines 326-331: CaptureAmountUpdate { amount_captured:
\* Some(orig_mandate.amount_captured.unwrap_or(0) + resp.request.get_amount()) }
CaptureAmountUpdate(orig, amount) ==
    [MandateUpdate("CaptureAmountUpdate") EXCEPT
        !.amount_captured = unwrap_or(orig.amount_captured, 0) + amount]

\* Lines 313-315: StatusUpdate { mandate_status: Revoked }
StatusUpdate(status) ==
    [MandateUpdate("StatusUpdate") EXCEPT !.mandate_status = status]

\* A single-use mandate set back to Active by the payment that used it.
ProcedureUpdate_reactivates(orig, amount) ==
    IF orig.mandate_type = "SingleUse" THEN StatusUpdate("Active")
    ELSE CaptureAmountUpdate(orig, amount)

\* Lines 307-337: the update by the type of the mandate that was read: a
\* single-use mandate is revoked, a multi-use mandate captures the amount.
ProcedureUpdate(orig, amount) ==
    IF orig.mandate_type = "SingleUse" THEN StatusUpdate("Revoked")
    ELSE CaptureAmountUpdate(orig, amount)

\* Lines 307-342: update_mandate_by_merchant_id_mandate_id with that update;
\* its error becomes MandateUpdateFailed, its success returns the mandate id.
UpdateOrigMandate(c) ==
    /\ call_pc[c] = "mp_update"
    /\ \E updated \in BOOLEAN :
          IF updated THEN
             /\ StoreUpdate(args[c].mandate_id,
                            ProcedureUpdate(orig_mandate[c], args[c].amount))
             /\ captured' = IF orig_mandate[c].mandate_type = "MultiUse"
                            THEN [captured EXCEPT ![args[c].mandate_id] = @ + args[c].amount]
                            ELSE captured
             /\ ProcedureReturns(c, OkSome(args[c].mandate_id))
          ELSE
             /\ ProcedureReturns(c, RouterError("MandateUpdateFailed"))
             /\ UNCHANGED <<db, storeVars, captured>>
    /\ UNCHANGED <<args, orig_mandate, revokeVars, notStore>>

\* Lines 382-391: insert_mandate of the new mandate; a mandate of that id in
\* the store, or any other error of the store, becomes DuplicateMandate.
InsertMandate(c) ==
    /\ call_pc[c] = "mp_insert"
    /\ \E stored \in BOOLEAN :
          /\ stored => "man_new" \notin inserted
          /\ IF stored THEN
                /\ inserted' = inserted \cup {"man_new"}
                /\ ProcedureReturns(c, OkSome("man_new"))
             ELSE
                /\ ProcedureReturns(c, RouterError("DuplicateMandate"))
                /\ UNCHANGED inserted
    /\ UNCHANGED <<db, db_mandate_type, db_amount_captured, db_connector_mandate_id,
                   db_connector_mandate_ids, db_payment_method_id, args, orig_mandate,
                   captured, revokeVars, notStore>>

\* The result goes to the caller; the call's locals are dropped.
DropProcedure(c) ==
    /\ call_pc[c] = "mp_returned"
    /\ call_pc' = [call_pc EXCEPT ![c] = "idle"]
    /\ args' = [args EXCEPT ![c] = NoArgs]
    /\ orig_mandate' = [orig_mandate EXCEPT ![c] = NoOrigMandate]
    /\ call_ret' = [call_ret EXCEPT ![c] = NotReturned]
    /\ UNCHANGED <<db, storeVars, captured, revokeVars, notStore>>

mandate_procedure(c) ==
    \/ ProcedureEntry(c)
    \/ FindOrigMandate(c)
    \/ UpdateOrigMandate(c)
    \/ InsertMandate(c)
    \/ DropProcedure(c)

(* --------------------- update_connector_mandate_id -------------------- *)

\* The mandate references a connector's response can carry: one without a
\* connector mandate id, and one for each of two ids.
MandateReferences == {"ref", "ref_cm_1", "ref_cm_2"}

\* MandateReference::connector_mandate_id
connector_mandate_id_of(reference) ==
    CASE reference = "ref_cm_1" -> "cm_1"
      [] reference = "ref_cm_2" -> "cm_2"
      [] OTHER -> None

\* Encode::encode_to_value of a mandate reference.
encode_to_value(reference) ==
    CASE reference = "ref_cm_1" -> "json_cm_1"
      [] reference = "ref_cm_2" -> "json_cm_2"
      [] OTHER -> "json"

\* The arguments of an update_connector_mandate_id call: the mandate id and
\* the payment method id, each optional, and the connector's response, which
\* carries a mandate reference only when it is an Ok TransactionResponse.
UpdateArgs ==
    {a \in [response_ok : BOOLEAN,
            mandate_id : {None} \cup MandateIds,
            amount : {0},
            setup : {"absent"},
            mandate_reference : {None} \cup MandateReferences,
            payment_method_id : {None, "pm_new"}] :
        ~a.response_ok => a.mandate_reference = None}

\* Lines 427-438: the mandate reference of an Ok TransactionResponse, None
\* for any other response.
ForeignFrom(a) == IF a.response_ok THEN a.mandate_reference ELSE None

StatusOk == [kind |-> "StatusOk", value |-> "", err |-> ""]

\* update_connector_mandate_id is called: lines 169-194: the reference is
\* taken from the response and encoded; only with a mandate id and a
\* reference does the call go to the store.
UpdateEntry(c) ==
    /\ call_pc[c] = "idle"
    /\ \E a \in UpdateArgs, encoded \in BOOLEAN :
          /\ ~encoded => ForeignFrom(a) # None
          /\ args' = [args EXCEPT ![c] = a]
          /\ IF ~encoded THEN
                /\ call_ret' = [call_ret EXCEPT ![c] = RouterError("InternalServerError")]
                /\ call_pc' = [call_pc EXCEPT ![c] = "uc_returned"]
             ELSE IF a.mandate_id # None /\ ForeignFrom(a) # None THEN
                ProcedureGoes(c, "uc_find")
             ELSE
                /\ call_ret' = [call_ret EXCEPT ![c] = StatusOk]
                /\ call_pc' = [call_pc EXCEPT ![c] = "uc_returned"]
    /\ UNCHANGED <<db, storeVars, orig_mandate, captured, revokeVars, notStore>>

\* Line 211: mandate.connector_mandate_id.is_none()
NeedsUpdate(orig) == orig.connector_mandate_id = None

\* Lines 195-202 and 211: find_mandate_by_merchant_id_mandate_id, its error
\* turned into MandateNotFound; a mandate that has a connector mandate id is
\* left as it is.
FindMandateToUpdate(c) ==
    /\ call_pc[c] = "uc_find"
    /\ \E found \in BOOLEAN :
          /\ found => args[c].mandate_id \in StoredMandates
          /\ IF ~found THEN
                /\ call_ret' = [call_ret EXCEPT ![c] = RouterError("MandateNotFound")]
                /\ call_pc' = [call_pc EXCEPT ![c] = "uc_returned"]
                /\ UNCHANGED orig_mandate
             ELSE
                LET read == [mandate_type |-> db_mandate_type[args[c].mandate_id],
                             amount_captured |-> db_amount_captured[args[c].mandate_id],
                             connector_mandate_id |->
                                 db_connector_mandate_id[args[c].mandate_id]]
                IN /\ orig_mandate' = [orig_mandate EXCEPT ![c] = read]
                   /\ IF NeedsUpdate(read) THEN ProcedureGoes(c, "uc_update")
                      ELSE /\ call_ret' = [call_ret EXCEPT ![c] = StatusOk]
                           /\ call_pc' = [call_pc EXCEPT ![c] = "uc_returned"]
    /\ UNCHANGED <<db, storeVars, args, captured, revokeVars, notStore>>

\* Lines 196-209: with a payment method id the connector mandate id, the
\* encoded reference and the payment method id; without one the encoded
\* reference alone.
update_mandate_details(a) ==
    IF a.payment_method_id # None
    THEN [MandateUpdate("ConnectorMandateIdUpdate") EXCEPT
             !.connector_mandate_id = connector_mandate_id_of(ForeignFrom(a)),
             !.connector_mandate_ids = encode_to_value(ForeignFrom(a)),
             !.payment_method_id = a.payment_method_id]
    ELSE [MandateUpdate("ConnectorReferenceUpdate") EXCEPT
             !.connector_mandate_ids = encode_to_value(ForeignFrom(a))]

\* Lines 211-220: update_mandate_by_merchant_id_mandate_id; its error becomes
\* MandateUpdateFailed, its success StatusOk.
UpdateConnectorMandate(c) ==
    /\ call_pc[c] = "uc_update"
    /\ \E updated \in BOOLEAN :
          IF updated THEN
             /\ StoreUpdate(args[c].mandate_id, update_mandate_details(args[c]))
             /\ call_ret' = [call_ret EXCEPT ![c] = StatusOk]
             /\ call_pc' = [call_pc EXCEPT ![c] = "uc_returned"]
          ELSE
             /\ call_ret' = [call_ret EXCEPT ![c] = RouterError("MandateUpdateFailed")]
             /\ call_pc' = [call_pc EXCEPT ![c] = "uc_returned"]
             /\ UNCHANGED <<db, storeVars>>
    /\ UNCHANGED <<args, orig_mandate, captured, revokeVars, notStore>>

\* The result goes to the caller; the call's locals are dropped.
DropUpdate(c) ==
    /\ call_pc[c] = "uc_returned"
    /\ call_pc' = [call_pc EXCEPT ![c] = "idle"]
    /\ args' = [args EXCEPT ![c] = NoArgs]
    /\ orig_mandate' = [orig_mandate EXCEPT ![c] = NoOrigMandate]
    /\ call_ret' = [call_ret EXCEPT ![c] = NotReturned]
    /\ UNCHANGED <<db, storeVars, captured, revokeVars, notStore>>

update_connector_mandate_id(c) ==
    \/ UpdateEntry(c)
    \/ FindMandateToUpdate(c)
    \/ UpdateConnectorMandate(c)
    \/ DropUpdate(c)

(* ------------------ the three functions on one store ------------------ *)

\* A store whose mandates have their status, type, captured amount and
\* connector mandate id among the given ones, and no call in flight.
StoreOf(statuses, types, amounts, connector_mandate_ids) ==
    /\ EvaluatorIdle
    /\ AnalysisIdle
    /\ KeysIdle
    /\ RefundIdle
    /\ db \in [StoredMandates -> statuses]
    /\ db_mandate_type \in [StoredMandates -> types]
    /\ db_amount_captured \in [StoredMandates -> amounts]
    /\ db_connector_mandate_id \in [StoredMandates -> connector_mandate_ids]
    /\ db_connector_mandate_ids = [m \in StoredMandates |-> None]
    /\ db_payment_method_id = [m \in StoredMandates |-> "pm_old"]
    /\ inserted = {}
    /\ captured = [m \in StoredMandates |-> unwrap_or(db_amount_captured[m], 0)]
    /\ CallsIdle
    /\ ProceduresIdle

\* Two concurrent calls of mandate_procedure.
InitProcedure == StoreOf(MandateStatus, MandateType, {NoAmount, 1}, {None})

NextProcedure == \E c \in Calls : mandate_procedure(c)

SpecProcedure == InitProcedure /\ [][NextProcedure]_vars

\* Two concurrent calls of update_connector_mandate_id.
InitUpdate == StoreOf({"Active"}, {"MultiUse"}, {NoAmount}, {None, "cm_old"})

NextUpdate == \E c \in Calls : update_connector_mandate_id(c)

SpecUpdate == InitUpdate /\ [][NextUpdate]_vars

\* One caller of any of the three functions, one after the other, and a
\* concurrent caller of revoke_mandate.
InitStore == StoreOf(MandateStatus, MandateType, {NoAmount}, {None})

Caller == "call_1"
Revoker == "call_2"

NextStore ==
    \/ ReceiveRequest(Caller)
    \/ revoke_mandate(Caller)
    \/ SendResponse(Caller)
    \/ mandate_procedure(Caller)
    \/ update_connector_mandate_id(Caller)
    \/ ReceiveRequest(Revoker)
    \/ revoke_mandate(Revoker)
    \/ SendResponse(Revoker)

SpecStore == InitStore /\ [][NextStore]_vars

(* ------------------------------ properties ---------------------------- *)


\* A get_valid_connectors_for_rule call is between its set-up and its return.
InLoop == pc \in {"while", "bare", "for", "pushed", "retain"}

\* The call that has just returned is an evaluation that returned a list.
ReturnedList == pc = "returned" /\ ret.kind = "Ok"

\* The context of the pair the manager yielded last, as the manager built it.
BareContext == SetToSeq(dir_rule.rule[yielded[Len(yielded)][1]][yielded[Len(yielded)][2]])

\* The positions of `list` whose connector is not in `invalid`.
KeptPositions(list, invalid) == {k \in 1..Len(list) : list[k] \notin invalid}

\* `out` holds exactly the entries of `list` at the kept positions, one per
\* position and in the order of the positions.
IsListMinus(out, list, invalid) ==
    LET kept == KeptPositions(list, invalid) IN
    /\ Len(out) = Cardinality(kept)
    /\ \A k \in kept : out[Cardinality({m \in kept : m <= k})] = list[k]

\* C1: the returned list is the seeded list without the connectors marked
\* invalid: every seeded occurrence of a connector never marked invalid is
\* returned once, in the seeded order, and nothing else is returned.
C1_ResultIsSeededMinusInvalid ==
    ReturnedList =>
        /\ IsListMinus(ret.list, SEED_DATA.connectors, invalid_connectors)
        /\ Range(ret.list) \subseteq Range(SEED_DATA.connectors)

\* A list with a repeated connector was evaluated, one connector was marked
\* invalid and another one returned.
C1_Witness ==
    /\ ReturnedList
    /\ invalid_connectors # {}
    /\ ret.list # <<>>
    /\ Len(SEED_DATA.connectors) > Len(ret.list)
    /\ Len(SEED_DATA.connectors) > Cardinality(Range(SEED_DATA.connectors))

\* C2: inside one evaluation the invalid set only grows, a connector in it
\* is never pushed (so never analysed) again, and it is absent from the
\* returned list.
C2_InvalidIsPermanent ==
    [][ /\ InLoop => invalid_connectors \subseteq invalid_connectors'
        /\ pc' = "pushed" => valid_connectors'[idx'] \notin invalid_connectors'
        /\ (pc' = "returned" /\ ret'.kind = "Ok") =>
              Range(ret'.list) \cap invalid_connectors' = {} ]_vars

\* An evaluation returned without a connector that failed under an earlier
\* context although the rule's last context accepts it.
C2_Witness ==
    /\ ReturnedList
    /\ Len(yielded) >= 2
    /\ \E conn \in invalid_connectors :
          ~perform_context_analysis(SEED_DATA.cgraph,
                Append(BareContext, ConnectorValue(conn))).is_err

\* The standalone analysis of the context at hand fails.
BareFails == pc = "bare" /\ perform_context_analysis(SEED_DATA.cgraph, ctx).is_err

VisaScenario ==
    /\ pc = "returned"
    /\ dir_rule.ok
    /\ dir_rule.rule = << <<{DirValue("CardNetwork", "Visa")}>>, <<{}>> >>
    /\ <<ConnectorValue("stripe"), DirValue("CardNetwork", "Visa")>> \in SEED_DATA.cgraph
    /\ "stripe" \in Range(SEED_DATA.connectors)

\* C4 as stated: in the scenario the result includes the connector.
C4_ScenarioIncludesConnector ==
    VisaScenario => (ret.kind = "Ok" /\ "stripe" \in Range(ret.list))

\* C4, amended: in the scenario the evaluation returns a list without the
\* connector: it is marked invalid under statement 1's context and never
\* tried under statement 2's.
C4_ScenarioExcludesConnector ==
    VisaScenario =>
        /\ ret.kind = "Ok"
        /\ "stripe" \notin Range(ret.list)
        /\ "stripe" \in invalid_connectors
        /\ IsListMinus(ret.list, SEED_DATA.connectors, {"stripe"})

\* The scenario was evaluated with a second connector beside stripe.
C4_Witness ==
    /\ VisaScenario
    /\ yielded = << <<1, 1>>, <<2, 1>> >>
    /\ "adyen" \in Range(ret.list)

\* C5: while the candidates of a context are walked, the context is the one
\* the manager yielded, and while one candidate is analysed it holds that
\* candidate's assertion on top and no other connector assertion; after the
\* loop it is again the yielded context.
C5_PushPopSymmetry ==
    /\ pc = "for" => ctx = BareContext
    /\ pc = "pushed" => ctx = Append(BareContext, ConnectorValue(valid_connectors[idx]))
    /\ (pc = "while" /\ yielded # <<>>) => ctx = BareContext

\* The candidate loop of a context has ended after one candidate failed and
\* one passed.
C5_Witness ==
    /\ pc = "for"
    /\ idx = Len(valid_connectors) + 1
    /\ Len(yielded) = 1
    /\ ctx # <<>>
    /\ invalid_connectors # {}
    /\ Range(valid_connectors) \ invalid_connectors # {}

\* The candidate on top of the context fails its analysis.
CandidateFails == perform_context_analysis(SEED_DATA.cgraph, ctx).is_err

\* What the analysis of one candidate does: nothing is returned, the
\* connector is marked exactly when the analysis failed, and the loop moves
\* to the next candidate of the same context.
CandidateStep ==
    pc = "pushed" =>
        /\ pc' = "for"
        /\ ret' = NoReturn
        /\ idx' = idx + 1
        /\ yielded' = yielded
        /\ invalid_connectors' =
              IF CandidateFails THEN invalid_connectors \cup {valid_connectors[idx]}
              ELSE invalid_connectors

\* An evaluation returns an error.
EvaluationAborts ==
    /\ pc' = "returned"
    /\ ret'.kind = "Err"
    /\ mcas' = NoMcas

AllClausesEmpty(r) == \A i \in 1..Len(r) : \A j \in 1..Len(r[i]) : r[i][j] = {}

\* No edge of the graph rules anything out for a seeded connector.
NoContradictingEdges ==
    \A e \in SEED_DATA.cgraph :
        \A conn \in Range(SEED_DATA.connectors) :
            e[1] # ConnectorValue(conn) /\ e[2] # ConnectorValue(conn)

\* C7: a rule whose conditions are all empty, evaluated over a non-empty
\* seeded list and a graph without contradicting edges, returns the seeded
\* list unchanged.
C7_EmptyConditionsKeepAll ==
    ( /\ pc = "returned"
      /\ SEED_DATA.set /\ rule.valid /\ lower_rule(rule.statements).ok
      /\ AllClausesEmpty(lower_rule(rule.statements).rule)
      /\ SEED_DATA.connectors # <<>>
      /\ NoContradictingEdges )
    => ret = Ok(SEED_DATA.connectors)

\* A rule of two always-true statements returned a list of several connectors
\* seeded with a graph that has edges for another connector.
C7_Witness ==
    /\ ReturnedList
    /\ Len(dir_rule.rule) = 2
    /\ AllClausesEmpty(dir_rule.rule)
    /\ NoContradictingEdges
    /\ SEED_DATA.cgraph # {}
    /\ Len(ret.list) >= 2
    /\ analysis_calls >= 4

\* The rule submitted to the call cannot be lowered.
LoweringFails == SEED_DATA.set /\ rule.valid /\ ~lower_rule(rule.statements).ok

\* C8: a rule that cannot be lowered returns the lowering error with no
\* context manager created, no analysis made and no connector marked; the
\* loop is only ever entered with the lowered form of the submitted rule.
C8_LoweringBeforeAnalysis ==
    /\ (pc # "idle" /\ LoweringFails) =>
          /\ pc = "returned"
          /\ ret = Err("lowering")
          /\ ctx_manager = NoManager
          /\ advance_calls = 0
          /\ analysis_calls = 0
          /\ invalid_connectors = {}
    /\ (InLoop \/ analysis_calls > 0 \/ ctx_manager # NoManager) =>
          /\ lower_rule(rule.statements).ok
          /\ dir_rule = lower_rule(rule.statements)

\* A rule whose second statement holds the unrecognized value was rejected
\* although connectors and a graph with edges are seeded.
C8_Witness ==
    /\ pc = "returned"
    /\ ret = Err("lowering")
    /\ Len(rule.statements) = 2
    /\ lower_rule(<<rule.statements[1]>>).ok
    /\ SEED_DATA.connectors # <<>>
    /\ SEED_DATA.cgraph # {}

RECURSIVE PairsFrom(_, _)
\* The (statement, clause) pairs of a rule from statement i on, in statement
\* order and, inside a statement, in clause order.
PairsFrom(r, i) ==
    IF i > Len(r) THEN <<>>
    ELSE [j \in 1..Len(r[i]) |-> <<i, j>>] \o PairsFrom(r, i + 1)

AllPairs(r) == PairsFrom(r, 1)

IsPrefix(a, b) == Len(a) <= Len(b) /\ SubSeq(b, 1, Len(a)) = a

\* C9: the manager yields the pairs of the lowered rule one by one in
\* statement and clause order, each with the context of its clause; the call
\* that yields the last pair returns that context and leaves the manager
\* Exhausted; the no-more-contexts signal comes only after every pair was
\* yielded, and from Exhausted every call gives it again.
C9_OneContextPerPairInOrder ==
    (pc # "idle" /\ dir_rule.ok) =>
        /\ IsPrefix(yielded, AllPairs(dir_rule.rule))
        /\ advance_calls >= Len(yielded)
        /\ pc = "bare" => ctx = BareContext
        /\ (ctx_manager.state = "Exhausted") = (yielded = AllPairs(dir_rule.rule) /\ advance_calls > 0)
        /\ (pc = "retain" \/ ret.kind = "Ok") =>
              /\ yielded = AllPairs(dir_rule.rule)
              /\ advance_calls = Len(yielded) + 1
        /\ ctx_manager.state = "Exhausted" =>
              LET again == advance_mut(dir_rule.rule, ctx_manager) IN
              ~again.some /\ again.manager = ctx_manager

\* The last of two pairs of a two-statement rule has just been yielded with
\* its context, and the manager is already Exhausted.
C9_Witness ==
    /\ pc = "bare"
    /\ yielded = << <<1, 1>>, <<2, 1>> >>
    /\ ctx # <<>>
    /\ ctx_manager.state = "Exhausted"

RECURSIVE TotalClauses(_)
\* The number of clauses of a rule.
TotalClauses(r) == IF r = <<>> THEN 0 ELSE Len(Head(r)) + TotalClauses(Tail(r))

\* The steps one context can take: its standalone analysis and, per
\* candidate, the push and the analysis, and the return to the loop head.
StepsPerContext == 2 * Len(valid_connectors) + 3

\* An upper bound of the steps the evaluation loop has left.
Measure ==
    LET rest == (TotalClauses(dir_rule.rule) - Len(yielded)) * StepsPerContext
        left == Len(valid_connectors) + 1 - idx
    IN CASE pc = "while" -> rest + 3
         [] pc = "bare" -> rest + 3 + StepsPerContext - 1
         [] pc = "for" -> rest + 3 + 2 * left + 1
         [] pc = "pushed" -> rest + 3 + 2 * left
         [] pc = "retain" -> 1
         [] OTHER -> 0

\* Every context of the rule is satisfiable before a connector is pushed.
EveryContextSatisfiable ==
    \A i \in 1..Len(dir_rule.rule) : \A j \in 1..Len(dir_rule.rule[i]) :
        ~perform_context_analysis(SEED_DATA.cgraph, SetToSeq(dir_rule.rule[i][j])).is_err

C11_FreshMemoizationPerAnalysis ==
    [][ analysis_calls' = analysis_calls + 1 =>
          /\ pc \in {"bare", "pushed"}
          /\ memo_reads' = {}
          /\ \A e \in memo' : \E k \in 1..Len(ctx) : e.key = MemoKey(ctx, k)
          /\ \A e \in memo' : e.sat = ~perform_context_analysis(SEED_DATA.cgraph,
                                          SetToSeq(e.key)).is_err ]_vars

\* A second candidate has been analysed under a non-empty context whose
\* sub-contexts the analyses before it had already judged.
C11_Witness ==
    /\ pc = "for"
    /\ idx >= 3
    /\ analysis_calls >= 3
    /\ ctx # <<>>
    /\ Cardinality(memo) = Len(ctx) + 1
    /\ memo_reads = {}
    /\ valid_connectors[idx - 1] # valid_connectors[idx - 2]
    /\ invalid_connectors = {}

\* Positions m, n of a context assert two different values of one key that
\* no aggregator of the graph joins.
TwoValuesOfOneKey(cgraph, c, m, n) ==
    /\ c[m].key = c[n].key
    /\ c[m].value # c[n].value
    /\ ~InAggregator(cgraph, c[m], c[n])

\* C12: a context that asserts two different values of one single-valued
\* key, with no aggregator joining them, is found unsatisfiable wherever the
\* two stand in the context and whatever else it holds; the failure is
\* reported no later than the second of the two.
C12_TwoValuesUnsatisfiable ==
    an_result.done =>
        \A m \in 1..Len(an_ctx) : \A n \in 1..Len(an_ctx) :
            (m < n /\ TwoValuesOfOneKey(an_graph, an_ctx, m, n)) =>
                (an_result.is_err /\ an_result.node <= n)

\* Two card networks were asserted with a connector between them that the
\* graph allows with both, and the analysis has failed.
C12_Witness ==
    /\ an_result.done
    /\ an_result.is_err
    /\ Len(an_ctx) = 3
    /\ an_ctx[1].key = "CardNetwork"
    /\ an_ctx[2].key = "Connector"
    /\ TwoValuesOfOneKey(an_graph, an_ctx, 1, 3)
    /\ ~Conflicts(an_graph, an_ctx[1], an_ctx[2])
    /\ ~Conflicts(an_graph, an_ctx[2], an_ctx[3])

\* The call in progress, or just returned, repeats the call before it.
SecondEvaluation == earlier # NoEarlier

\* C13: a rule evaluated a second time against the same seed returns the
\* list it returned the first time, and the second call sets out with an
\* empty invalid set, an empty context and an empty memoization table.
C13_SecondEvaluationSameList ==
    SecondEvaluation =>
        /\ rule = earlier.rule
        /\ (pc = "returned" => ret = earlier.ret)
        /\ (pc = "while" /\ advance_calls = 0 =>
                /\ invalid_connectors = {}
                /\ ctx = <<>>
                /\ memo = Memoization_new)

\* The second of two identical calls has returned, and the first had put a
\* connector in its invalid set and kept another.
C13_Witness ==
    /\ SecondEvaluation
    /\ pc = "returned"
    /\ ret.kind = "Ok"
    /\ ret.list # <<>>
    /\ invalid_connectors # {}
    /\ Len(ret.list) < Len(SEED_DATA.connectors)

\* This step is a seed_knowledge_graph call, from entry to return.
SeedStep == mcas = NoMcas /\ mcas' # NoMcas

\* This step enters get_valid_connectors_for_rule.
EvaluationStep == pc \in {"idle", "returned"} /\ pc' # "idle" /\ mcas' = NoMcas

AlreadySeeded == Err("Knowledge Graph has been already seeded")

\* C14 as stated: once the graph is seeded, every later seed call returns
\* "Knowledge Graph has been already seeded", whatever its input.
C14_EveryLaterSeedAlreadySeeded ==
    [][ (SEED_DATA.set /\ SeedStep) => ret' = AlreadySeeded ]_vars

\* C14, amended: once seeded, SEED_DATA never changes and every later
\* evaluation starts from its connector list; every later seed call fails,
\* with "Knowledge Graph has been already seeded" when its payload passes
\* every check made before the cell is written, and with the error of the
\* first failing check otherwise.
C14_SeedOnce ==
    [][ SEED_DATA.set =>
          /\ SEED_DATA' = SEED_DATA
          /\ SeedStep =>
                /\ ret'.kind = "Err"
                /\ (mcas'.shape = "ok"
                    /\ (\A k \in DOMAIN mcas'.names : mcas'.names[k] \in RoutableConnectors)
                    /\ ~DomainIdCollision(mcas'.domains, ANALYSIS_DOMAINS))
                   <=> ret' = AlreadySeeded
          /\ (EvaluationStep /\ pc' = "while") =>
                valid_connectors' = SEED_DATA.connectors ]_vars

\* A seed call with a well-formed payload naming other connectors than the
\* seeded ones has been refused.
C14_Witness ==
    /\ pc = "returned"
    /\ SEED_DATA.set
    /\ mcas.shape = "ok"
    /\ ret = AlreadySeeded
    /\ mcas.names # SEED_DATA.connectors
    /\ mcas.edges # SEED_DATA.cgraph

\* The payload names a connector that is no routable connector, or no
\* merchant graph can be built from it, or its graph collides with the
\* global one.
FailingPayload(payload) ==
    \/ \E k \in DOMAIN payload.names : payload.names[k] \notin RoutableConnectors
    \/ payload.shape = "unbuildable"
    \/ DomainIdCollision(payload.domains, ANALYSIS_DOMAINS)

\* C15: a seed call whose payload fails for one of the three reasons returns
\* an error and leaves SEED_DATA as it was; while SEED_DATA is unset an
\* evaluation fails with "Data not seeded" and a seed call with a payload
\* that passes every check stores its data and succeeds.
C15_FailedSeedChangesNothing ==
    [][ /\ (SeedStep /\ FailingPayload(mcas')) =>
              /\ SEED_DATA' = SEED_DATA
              /\ ret'.kind = "Err"
        /\ (SeedStep /\ ~SEED_DATA.set /\ mcas'.shape = "ok" /\ ~FailingPayload(mcas')) =>
              /\ SEED_DATA'.set
              /\ SEED_DATA'.connectors = mcas'.names
              /\ ret' = OkNull
        /\ (EvaluationStep /\ ~SEED_DATA.set) => ret' = Err("Data not seeded") ]_vars

\* A seed call whose names all parse and whose graph was built has failed on
\* the collision with the global graph, and nothing is seeded.
C15_Witness ==
    /\ pc = "returned"
    /\ ~SEED_DATA.set
    /\ mcas.shape = "ok"
    /\ mcas.names # <<>>
    /\ \A k \in DOMAIN mcas.names : mcas.names[k] \in RoutableConnectors
    /\ DomainIdCollision(mcas.domains, ANALYSIS_DOMAINS)
    /\ ret = Err("DomainIdCollision")

\* C16: an evaluation entered while nothing is seeded returns
\* "Data not seeded" at once, with no rule lowered, no context drawn and no
\* analysis made; a connector list is returned only when the graph is seeded.
C16_UnseededEvaluationFails ==
    [][ /\ (EvaluationStep /\ ~SEED_DATA.set) =>
              /\ pc' = "returned"
              /\ ret' = Err("Data not seeded")
              /\ dir_rule' = [ok |-> FALSE, rule |-> <<>>]
              /\ advance_calls' = 0
              /\ analysis_calls' = 0
        /\ ret'.kind = "Ok" => SEED_DATA'.set ]_vars

\* An evaluation of a rule that deserializes and has conditions was refused
\* for want of a seed.
C16_Witness ==
    /\ pc = "returned"
    /\ ~SEED_DATA.set
    /\ mcas = NoMcas
    /\ ret = Err("Data not seeded")
    /\ rule.valid
    /\ rule.statements # <<>>

\* Positions of the variant table whose name is none of the eight keys
\* get_all_keys leaves out.
RoutingPositions ==
    {k \in DOMAIN VARIANTS :
        VARIANTS[k] \notin {"Connector", "issuer_name", "issuer_country",
                            "customer_device_platform", "customer_device_type",
                            "customer_device_display_size", "acquirer_country",
                            "acquirer_fraud_rate"}}

\* The j-th routing position, counted in declaration order.
RoutingPosition(j) ==
    CHOOSE k \in RoutingPositions : Cardinality({m \in RoutingPositions : m < k}) = j - 1

\* C17: get_all_keys returns the names of the variant table that are none of
\* the eight excluded keys, each as often as the table holds it and in the
\* table's order: nothing excluded is returned, nothing else is dropped.
C17_AllKeysButExcluded ==
    keys # NoReturn =>
        /\ keys.kind = "Ok"
        /\ Len(keys.list) = Cardinality(RoutingPositions)
        /\ \A j \in DOMAIN keys.list : keys.list[j] = VARIANTS[RoutingPosition(j)]

\* The table holds an excluded key between two routing keys, the later one
\* declared first in the alphabet, and get_all_keys returned the two.
C17_Witness ==
    /\ keys.kind = "Ok"
    /\ Len(VARIANTS) = 3
    /\ VARIANTS[1] = "payment_method"
    /\ VARIANTS[2] = "issuer_country"
    /\ VARIANTS[3] = "amount"
    /\ keys.list = <<"payment_method", "amount">>

\* C18: the record of test_backwards_compatibility, which has no
\* organization_id, split_refunds, processor_refund_data, issuer_error_code
\* or modified_at key, deserializes into the v1 Refund.
C18_OldRecordDeserializes ==
    (deserialized # NoReturn /\ serialized_refund = TestRecord) => deserialized.kind = "Ok"

\* The statuses revoke_mandate goes to the connector for.
Revocable == {"Active", "Inactive", "Pending"}

\* This step is the one by which request c returns.
ReturnsNow(c) == call_pc[c] \notin {"idle", "returned"} /\ call_pc'[c] = "returned"

\* C19 as stated: a request that read a revocable mandate writes Revoked if
\* and only if the connector's step returned an Ok response; on an error
\* response it returns ExternalConnectorError and writes nothing.
C19_WritesIffConnectorOk ==
    \A c \in Calls :
        (call_pc[c] = "returned" /\ mandate[c].mandate_status \in Revocable) =>
            /\ wrote[c] <=> response[c] = "Ok"
            /\ response[c] = "Err" => revoke_ret[c] = ApiError("ExternalConnectorError")

\* C19, amended: the store changes only by the update of a request whose
\* connector step returned Ok, and then to Revoked. A request that read a
\* revocable mandate and got an Ok response returns the revoked status when
\* its update succeeds and MandateNotFound, with the store unchanged, when
\* the update fails; on an error response it returns ExternalConnectorError
\* and on the failure of any earlier step that step's error, the store
\* unchanged in both cases.
C19_WritesOnlyAfterConnectorOk ==
    [][ \A c \in Calls :
          call_pc'[c] # call_pc[c] =>
            /\ db' # db =>
                  /\ call_pc[c] = "update"
                  /\ response[c] = "Ok"
                  /\ db' = [db EXCEPT ![req[c]] = "Revoked"]
            /\ (ReturnsNow(c) /\ mandate'[c].mandate_status \in Revocable) =>
                  /\ response'[c] = "Ok" =>
                        \/ /\ db'[req[c]] = "Revoked"
                           /\ revoke_ret'[c] = MandateRevokedResponse("Revoked")
                        \/ /\ db' = db
                           /\ revoke_ret'[c] = ApiError("MandateNotFound")
                  /\ response'[c] = "Err" =>
                        /\ db' = db
                        /\ revoke_ret'[c] = ApiError("ExternalConnectorError")
                  /\ response'[c] \in {"none", "failed"} =>
                        /\ db' = db
                        /\ revoke_ret'[c].kind = "Err" ]_vars

\* One request got an error response from the connector and returned
\* ExternalConnectorError without a write; another got Ok and revoked the
\* mandate.
C19_Witness ==
    \E c \in Calls, d \in Calls :
        /\ call_pc[c] = "returned"
        /\ mandate[c].mandate_status \in Revocable
        /\ response[c] = "Err"
        /\ revoke_ret[c] = ApiError("ExternalConnectorError")
        /\ ~wrote[c]
        /\ call_pc[d] = "returned"
        /\ wrote[d]
        /\ revoke_ret[d] = MandateRevokedResponse("Revoked")

\* C20: a request that finds its mandate revoked returns
\* MandateValidationFailed with the reason "Mandate has already been
\* revoked", and a request whose mandate id is not in the store returns
\* MandateNotFound; neither has called the connector or written to the store.
C20_RevokedOrUnknownRefused ==
    \A c \in Calls :
        call_pc[c] = "returned" =>
            /\ mandate[c].mandate_status = "Revoked" =>
                  /\ revoke_ret[c] = MandateValidationFailed("Mandate has already been revoked")
                  /\ response[c] = "none"
                  /\ ~wrote[c]
            /\ req[c] \notin StoredMandates =>
                  /\ revoke_ret[c] = ApiError("MandateNotFound")
                  /\ mandate[c] = NoMandate
                  /\ response[c] = "none"
                  /\ ~wrote[c]

\* One request was refused because the mandate it read had been revoked
\* and another because the store holds no mandate of its id.
C20_Witness ==
    \E c \in Calls, d \in Calls :
        /\ call_pc[c] = "returned"
        /\ mandate[c].mandate_status = "Revoked"
        /\ revoke_ret[c].err = "MandateValidationFailed"
        /\ call_pc[d] = "returned"
        /\ req[d] \notin StoredMandates
        /\ revoke_ret[d] = ApiError("MandateNotFound")

\* C21: a mandate whose stored status is Revoked keeps that status through
\* every step of revoke_mandate, mandate_procedure and
\* update_connector_mandate_id, of either call.
C21_RevokedIsAbsorbing ==
    [][\A m \in StoredMandates : db[m] = "Revoked" => db'[m] = "Revoked"]_vars

\* A mandate was revoked by one call's revoke_mandate, and after that
\* write the payment of a single-use mandate has written its status again.
C21_Witness ==
    \E m \in StoredMandates :
        /\ db[m] = "Revoked"
        /\ wrote[Revoker]
        /\ req[Revoker] = m
        /\ call_pc[Caller] = "mp_returned"
        /\ orig_mandate[Caller].mandate_type = "SingleUse"
        /\ call_ret[Caller] = OkSome(m)

\* The columns of the mandates other than the status and the captured amount.
OtherColumns ==
    <<db_mandate_type, db_connector_mandate_id, db_connector_mandate_ids,
      db_payment_method_id, inserted>>

\* The step in which call c of mandate_procedure has its update accepted by
\* the store.
ProcedureUpdated(c) ==
    /\ call_pc[c] = "mp_update"
    /\ call_ret'[c].kind = "Some"

\* Call c of mandate_procedure has an error response of the connector, or
\* a mandate reference without a mandate id.
NothingToDo(c) ==
    /\ call_pc[c] \in {"mp_find", "mp_update", "mp_insert", "mp_returned"}
    /\ ~args[c].response_ok \/ args[c].mandate_id = "NoId"

C23_NoLostUpdate ==
    \A m \in StoredMandates :
        db_mandate_type[m] = "MultiUse" =>
            unwrap_or(db_amount_captured[m], 0) = captured[m]

\* C24: of two revoke_mandate requests for the same mandate that are in
\* flight together, at most one has had the connector revoke the mandate
\* and returns the status Revoked.
C24_AtMostOneRevokes ==
    \A c \in Calls, d \in Calls :
        (c # d /\ req[c] = req[d] /\ call_pc[c] = "returned" /\ call_pc[d] = "returned") =>
            ~ /\ response[c] = "Ok"
              /\ revoke_ret[c] = MandateRevokedResponse("Revoked")
              /\ response[d] = "Ok"
              /\ revoke_ret[d] = MandateRevokedResponse("Revoked")

\* C25: update_connector_mandate_id has its update accepted by the store
\* only with a mandate id and a mandate reference of the response, and only
\* for a mandate whose stored connector_mandate_id is None; a stored
\* connector_mandate_id that is not None is never replaced.
C25_NeverOverwrites ==
    [][\A c \in Calls :
          (call_pc[c] = "uc_update" /\ <<db, storeVars>>' # <<db, storeVars>>) =>
              /\ args[c].mandate_id # None
              /\ ForeignFrom(args[c]) # None
              /\ db_connector_mandate_id[args[c].mandate_id] = None
              /\ \A m \in StoredMandates :
                    db_connector_mandate_id[m] # None =>
                        db_connector_mandate_id'[m] = db_connector_mandate_id[m]
      ]_vars

\* The fields of a refund that no variant of the update has.
NotCarried == FieldNames \ (MergedNames \cup {"updated_by"})

\* After the call a merged field has the update's value when the update
\* has one and the source's otherwise, and updated_by is the update's.
MergedFieldWise ==
    /\ \A name \in MergedNames :
          cs_refund[name] =
              IF FieldOf(name) \in DOMAIN cs_update.fields
                 /\ cs_update.fields[FieldOf(name)] # None
              THEN cs_update.fields[FieldOf(name)]
              ELSE cs_source[name]
    /\ cs_refund.updated_by = cs_update.fields.updated_by

\* C26 as stated: apply_changeset merges field by field, replaces
\* updated_by, and returns every field no variant of the update has,
\* modified_at among them, as the source has it.
C26_AllOtherFieldsKept ==
    cs_pc = "returned" =>
        /\ MergedFieldWise
        /\ \A name \in NotCarried : cs_refund[name] = cs_source[name]

\* C26: apply_changeset merges field by field and replaces updated_by;
\* modified_at becomes the time of the call, and every other field no
\* variant of the update has is the source's.
C26_FieldWiseMerge ==
    cs_pc = "returned" =>
        /\ MergedFieldWise
        /\ cs_refund.modified_at = cs_clock
        /\ \A name \in NotCarried \ {"modified_at"} : cs_refund[name] = cs_source[name]

\* An ErrorUpdate with a status and an error code but no error message,
\* applied at time 1 to a refund whose Option fields are all Some, has
\* returned: the status and the code are the update's, the message and the
\* identifiers the source's.
C26_Witness ==
    /\ cs_pc = "returned"
    /\ cs_update.variant = "ErrorUpdate"
    /\ cs_update.fields.refund_status = "Failure"
    /\ cs_update.fields.refund_error_code = "new"
    /\ cs_update.fields.refund_error_message = None
    /\ cs_source.refund_error_message = "old"
    /\ cs_clock = 1
    /\ cs_refund.refund_status = "Failure"
    /\ cs_refund.refund_error_code = "new"
    /\ cs_refund.refund_error_message = "old"
    /\ cs_refund.refund_id = "source"
    /\ cs_refund.modified_at = 1

====
